---- MODULE Spec2Model ----
(***************************************************************************)
(* Campaign dispatch engine of backend-integrador: the orchestrator        *)
(* (CampaignSenderService), the queue path (startCampaign + campaign       *)
(* worker) and the reconciler (webhookController.handleWebhook), over one  *)
(* persistent store (Campaign, Recipient, Instance, SendingLog).           *)
(***************************************************************************)
EXTENDS Integers, Sequences, FiniteSets, TLC

(***************************************************************************)
(* The entities of the store.  Ids are strings; the order of each tuple is *)
(* the createdAt order of the rows.                                        *)
(***************************************************************************)
CampaignOrder == <<"c1", "c2">>
RecipientOrder == <<"r1", "r2", "r3">>
InstanceOrder == <<"i1", "i2">>
LogIdOrder == <<"L1", "L2", "L3", "L4", "L5", "L6">>

Range(s) == {s[k] : k \in 1..Len(s)}

Campaigns == Range(CampaignOrder)
Recipients == Range(RecipientOrder)
Instances == Range(InstanceOrder)
Passes == {"p1", "p2"}

\* Recipient.campaignId: r1 and r2 belong to c1, r3 to c2.
campaignIdOf(r) == IF r = "r3" THEN "c2" ELSE "c1"

RecipientsOf(c) == {r \in Recipients : campaignIdOf(r) = c}

\* The messageId the gateway assigns to the message it accepted for r.
gatewayMessageId(r) == CASE r = "r1" -> "m1" [] r = "r2" -> "m2" [] OTHER -> "m3"

(***************************************************************************)
(* Strings that are built and parsed are sequences of characters.          *)
(***************************************************************************)
Chars(id) ==
    CASE id = "c1" -> <<"c", "1">>
      [] id = "c2" -> <<"c", "2">>
      [] id = "c9" -> <<"c", "9">>
      [] id = "r1" -> <<"r", "1">>
      [] id = "r2" -> <<"r", "2">>
      [] id = "r3" -> <<"r", "3">>
      [] id = "r9" -> <<"r", "9">>
      [] OTHER -> <<>>

KnownIds == {"c1", "c2", "c9", "r1", "r2", "r3", "r9"}

\* The id a character string spells, "none" when it spells no id of the model.
IdOfChars(s) == IF \E x \in KnownIds : Chars(x) = s
                THEN CHOOSE x \in KnownIds : Chars(x) = s
                ELSE "none"

optOutButtonText == "Nao desejo mais receber"

StrOptOutDash == <<"o", "p", "t", "-", "o", "u", "t", "-">>

\* id: `opt-out-${campaign.id}-${recipient.id}`
optOutButtonId(campaignId, recipientId) ==
    StrOptOutDash \o Chars(campaignId) \o <<"-">> \o Chars(recipientId)

optOutButton(campaignId, recipientId) ==
    [type |-> "reply", displayText |-> optOutButtonText,
     id |-> optOutButtonId(campaignId, recipientId)]

(***************************************************************************)
(* Campaign configurations (the columns a run only reads).                 *)
(***************************************************************************)
Templates == {"", "Hi {there|friend}!"}

\* A reply button of the campaign's own, and one that already carries the
\* opt-out text.
ownButton == [type |-> "reply", displayText |-> "Sim", id |-> <<"y", "e", "s">>]
ownOptOutButton == [type |-> "reply", displayText |-> optOutButtonText,
                    id |-> <<"s", "t", "o", "p">>]

\* Campaign.messageButtons is a JSON column: null, an array of buttons, or an
\* object {title, description, footer, buttons}.
MessageButtonsValues ==
    { [kind |-> "null", list |-> <<>>],
      [kind |-> "array", list |-> <<ownButton>>],
      [kind |-> "array", list |-> <<ownOptOutButton>>],
      [kind |-> "object", list |-> <<ownButton>>] }

Configs == [messageTextTemplate : Templates,
            messageMediaTemplate : BOOLEAN,
            messageButtons : MessageButtonsValues,
            useNumberRotation : BOOLEAN,
            startTime : {"null", "future"}]

defaultConfig == [messageTextTemplate |-> "Hi {there|friend}!",
                  messageMediaTemplate |-> FALSE,
                  messageButtons |-> [kind |-> "null", list |-> <<>>],
                  useNumberRotation |-> FALSE,
                  startTime |-> "null"]

VARIABLES
    cfg,            \* [Campaigns -> Configs]
    cStatus,        \* Campaign.status
    cEndTime,       \* Campaign.endTime is set
    sentCount, failedCount, optedOutCount,
    rStatus,        \* Recipient.status
    rMessageId,     \* Recipient.messageId ("none" when null)
    rFailedReason,  \* Recipient.failedReason ("none" when null)
    logs,           \* SendingLog rows in creation order; row k has id LogIdOrder[k]
    iStatus,        \* Instance.status
    iLastUsedAt,    \* Instance.lastUsedAt (0 when null)
    clock,          \* the time new Date() returns
    pc, mem, cur,   \* processCampaign passes: position, campaign object, recipient
    detached,       \* store updates issued without await, not yet applied
    calls,          \* the gateway calls made so far
    sc, queue, active,  \* startCampaign requests, waiting jobs, jobs in a worker
    hooks,          \* opt-out webhook requests in progress
    last            \* the last request answered and its response

storeVars == <<cStatus, cEndTime, sentCount, failedCount, optedOutCount,
               rStatus, rMessageId, rFailedReason, logs, iStatus, iLastUsedAt>>
orchVars == <<pc, mem, cur>>
queueVars == <<sc, queue, active>>
vars == <<cfg, storeVars, clock, orchVars, detached, calls, queueVars, hooks, last>>

(***************************************************************************)
(* Store operations.                                                       *)
(***************************************************************************)
isPending(r) == rStatus[r] = "pending"

writeOne(counter, campaignId) == [counter EXCEPT ![campaignId] = 1]

\* prisma.campaign.update({data: {<counter>: {increment: 1}}}): one UPDATE
\* statement, the store adds 1 to the value it holds.
increment(counter, campaignId) == [counter EXCEPT ![campaignId] = @ + 1]

findNoRecipient(campaignId, status) == "none"

findFirstRecipient(campaignId, status) ==
    LET found == SelectSeq(RecipientOrder, LAMBDA r : campaignIdOf(r) = campaignId)
    IN IF Len(found) = 0 THEN "none" ELSE found[1]

\* prisma.recipient.findFirst({campaignId, status: "pending"}, createdAt asc)
findNextRecipientToSend(campaignId, status) ==
    LET found == SelectSeq(RecipientOrder,
                     LAMBDA r : campaignIdOf(r) = campaignId /\ status[r] = "pending")
    IN IF Len(found) = 0 THEN "none" ELSE found[1]

\* prisma.sendingLog.create: the row gets a store-generated id (the next of
\* LogIdOrder); the gateway messageId is not a column of SendingLog.
createSendingLog(campaignId, recipientId, instanceId, status) ==
    Append(logs, [campaignId |-> campaignId, recipientId |-> recipientId,
                  instanceId |-> instanceId, status |-> status])

noDetached == [sentCount |-> [c \in Campaigns |-> 0],
               failedCount |-> [c \in Campaigns |-> 0],
               lastUsedAt |-> {}]

(***************************************************************************)
(* CampaignSenderService (src/services/campaignSender.service.ts).         *)
(***************************************************************************)
\* campaign.instances.filter(inst => inst.status === "connected")
availableInstances(instances) ==
    SelectSeq(InstanceOrder, LAMBDA i : instances[i].status = "connected")

firstAvailable(avail, instances) == avail[1]

\* sortedInstances[0] of the stable sort by (lastUsedAt?.getTime() || 0)
leastRecentlyUsed(avail, instances) ==
    LET first == CHOOSE k \in 1..Len(avail) :
                /\ \A j \in 1..Len(avail) :
                      instances[avail[k]].lastUsedAt <= instances[avail[j]].lastUsedAt
                /\ \A j \in 1..(k - 1) :
                      instances[avail[j]].lastUsedAt > instances[avail[k]].lastUsedAt
    IN avail[first]

selectSendingInstanceRotating(useNumberRotation, instances) ==
    LET avail == availableInstances(instances)
    IN IF Len(avail) = 0 THEN "none" ELSE leastRecentlyUsed(avail, instances)

\* The instance selected for the next recipient, "none" when none is connected.
selectSendingInstance(useNumberRotation, instances) ==
    LET avail == availableInstances(instances)
    IN IF Len(avail) = 0 THEN "none"
       ELSE IF ~useNumberRotation THEN avail[1]
       ELSE leastRecentlyUsed(avail, instances)

processedTextNeverEmpty(template) == FALSE

\* processSpintax(template) is "" exactly for the templates of Templates that
\* are empty (a template without text has no group to resolve).
processedTextIsEmpty(template) == template = ""

hasOptOutButton(buttons) ==
    \E k \in 1..Len(buttons) :
        buttons[k].type = "reply" /\ buttons[k].displayText = optOutButtonText

\* The ids of the opt-out controls among the buttons of a payload.
optOutIds(buttons) ==
    {buttons[k].id : k \in {j \in 1..Len(buttons) :
                               buttons[j].displayText = optOutButtonText}}

noPayload == [kind |-> "none", buttons |-> <<>>]

\* The array `buttons` after lines 191-212: campaign.messageButtons itself when
\* it is an array (the push then mutates the campaign object), else a new array.
buttonsWithOptOut(messageButtons, campaignId, recipientId) ==
    LET buttons == IF messageButtons.kind = "array" THEN messageButtons.list ELSE <<>>
    IN IF hasOptOutButton(buttons) THEN buttons
       ELSE Append(buttons, optOutButton(campaignId, recipientId))

\* generateMessagePayload: the payload, and campaign.messageButtons afterwards.
generateMessagePayload(config, messageButtons, campaignId, recipientId) ==
    LET buttons == buttonsWithOptOut(messageButtons, campaignId, recipientId)
        noText == processedTextIsEmpty(config.messageTextTemplate)
        payload ==
            IF Len(buttons) > 0
            THEN IF noText /\ ~config.messageMediaTemplate THEN noPayload
                 ELSE [kind |-> "buttons", buttons |-> buttons]
            ELSE IF ~noText THEN [kind |-> "text", buttons |-> <<>>]
            ELSE noPayload
    IN [payload |-> payload,
        messageButtons |-> IF messageButtons.kind = "array"
                           THEN [kind |-> "array", list |-> buttons]
                           ELSE messageButtons]

\* What the gateway client can answer: a success with a messageId, a success
\* without one, {success: false, error}, or an exception (network, timeout).
GatewayOutcomes == {"ok", "ok_noid", "fail", "throw"}

\* apiResponse?.messageId
responseMessageId(outcome, r) == IF outcome = "ok" THEN gatewayMessageId(r) ELSE "none"

idleMem == [id |-> "none", messageButtons |-> [kind |-> "null", list |-> <<>>],
            instances |-> [i \in Instances |-> [status |-> "none", lastUsedAt |-> 0]],
            pending0 |-> {}, sent0 |-> 0, failed0 |-> 0, paused |-> FALSE,
            pacing |-> "none"]

noMessage == [fromMe |-> FALSE, id |-> "none", status |-> "none", ack |-> "none"]

\* req.body
payloadOf(event, instanceName, hasData) ==
    [event |-> event, instanceName |-> instanceName, hasData |-> hasData,
     messages |-> <<>>, buttonId |-> <<>>, remoteJid |-> FALSE, state |-> "none",
     qrcode |-> FALSE]

\* The last HTTP request served and its answer (none after any other step).
noLast == [op |-> "none", code |-> 0, payload |-> payloadOf("none", "none", FALSE),
           fault |-> "none", changed |-> FALSE]

\* The campaign object processCampaign holds: the row and its instances as
\* they are when it is loaded.
loadCampaign(c) ==
    [id |-> c, messageButtons |-> cfg[c].messageButtons,
     instances |-> [i \in Instances |->
                       [status |-> iStatus[i], lastUsedAt |-> iLastUsedAt[i]]],
     pending0 |-> {r \in RecipientsOf(c) : rStatus[r] = "pending"},
     sent0 |-> sentCount[c] + detached.sentCount[c],
     failed0 |-> failedCount[c] + detached.failedCount[c],
     paused |-> FALSE,
     pacing |-> "none"]

findFirstActiveCampaign ==
    LET found == SelectSeq(CampaignOrder,
                     LAMBDA c : cStatus[c] \in {"pending", "running"})
    IN IF Len(found) = 0 THEN "none" ELSE found[1]

\* findNextCampaignToProcess: the oldest campaign that is pending or running
\* and whose startTime is null or past.
findNextCampaignToProcess ==
    LET found == SelectSeq(CampaignOrder,
                     LAMBDA c : /\ cStatus[c] \in {"pending", "running"}
                                /\ cfg[c].startTime # "future")
    IN IF Len(found) = 0 THEN "none" ELSE found[1]

\* processCampaign, lines 477-518: acquire the campaign (named, or the next
\* one), set it running, fetch the first pending recipient.
Acquire(p, c) ==
    /\ pc[p] \in {"idle", "done"}
    /\ cStatus[c] \in {"pending", "running"}
    /\ cStatus' = [cStatus EXCEPT ![c] = "running"]
    /\ mem' = [mem EXCEPT ![p] = loadCampaign(c)]
    /\ cur' = [cur EXCEPT ![p] = findNextRecipientToSend(c, rStatus)]
    /\ pc' = [pc EXCEPT ![p] = IF cur'[p] = "none" THEN "drain" ELSE "loop"]
    /\ last' = noLast
    /\ UNCHANGED <<hooks, cfg, cEndTime, sentCount, failedCount, optedOutCount, rStatus,
                   rMessageId, rFailedReason, logs, iStatus, iLastUsedAt, clock,
                   detached, calls, queueVars>>

ProcessNamedCampaign(p, c) == Acquire(p, c)

ProcessNextCampaign(p) ==
    /\ findNextCampaignToProcess # "none"
    /\ Acquire(p, findNextCampaignToProcess)

reasonNoContent == "Nenhum conteudo de mensagem gerado."
reasonApiError == "Erro desconhecido na API."

gatewayCall(path, campaignId, recipientId, instanceId, payload, outcome) ==
    [path |-> path, campaignId |-> campaignId, recipientId |-> recipientId,
     instanceId |-> instanceId, method |-> payload.kind,
     buttons |-> payload.buttons, outcome |-> outcome]

\* sendMessageToRecipient, lines 309-361: a response that is not an exception
\* is booked as a sent message, whatever its success flag says.
bookedAsSent(outcome) == outcome # "throw"

\* Lines 540-554: the pacing delay is awaited inside the try block, after
\* sendMessageToRecipient; when that throws, the catch block is entered and
\* the delay is not awaited.  pacing tells whether the pass has called the
\* gateway ("none" before its first call) and whether a delay has elapsed
\* since its last call.
pacingAfter(pacing, kind, outcome) ==
    IF kind = "none" THEN (IF pacing = "none" THEN "none" ELSE "delayed")
    ELSE IF outcome = "throw" THEN "undelayed"
    ELSE "delayed"

\* One iteration of processCampaign's while loop (lines 520-561) for the
\* recipient in hand, with sendMessageToRecipient (lines 278-402) inlined, and
\* the fetch of the next pending recipient.
LoopStep(p, outcome) ==
    /\ pc[p] = "loop"
    /\ LET c == mem[p].id
           r == cur[p]
           instance == selectSendingInstance(cfg[c].useNumberRotation, mem[p].instances)
           gen == generateMessagePayload(cfg[c], mem[p].messageButtons, c, r)
           stamped == instance # "none" /\ cfg[c].useNumberRotation
       IN IF instance = "none"
          THEN \* no connected instance: pause the campaign and leave the loop
               /\ cStatus' = [cStatus EXCEPT ![c] = "paused"]
               /\ cEndTime' = [cEndTime EXCEPT ![c] = TRUE]
               /\ mem' = [mem EXCEPT ![p].paused = TRUE]
               /\ pc' = [pc EXCEPT ![p] = "drain"]
               /\ UNCHANGED <<rStatus, rMessageId, rFailedReason, logs, clock,
                              detached, calls, cur>>
          ELSE /\ mem' = [mem EXCEPT ![p].messageButtons = gen.messageButtons,
                                     ![p].pacing = pacingAfter(@, gen.payload.kind, outcome)]
               /\ clock' = IF stamped THEN clock + 1 ELSE clock
               /\ UNCHANGED <<cStatus, cEndTime>>
               /\ IF gen.payload.kind = "none"
                  THEN \* no content: failed, api_error log, no gateway call
                       /\ rStatus' = [rStatus EXCEPT ![r] = "failed"]
                       /\ rFailedReason' = [rFailedReason EXCEPT ![r] = reasonNoContent]
                       /\ logs' = createSendingLog(c, r, instance, "api_error")
                       /\ detached' = [detached EXCEPT !.lastUsedAt =
                              IF stamped THEN @ \cup {<<instance, clock + 1>>} ELSE @]
                       /\ UNCHANGED <<rMessageId, calls>>
                  ELSE /\ calls' = Append(calls,
                              gatewayCall("orchestrator", c, r, instance, gen.payload, outcome))
                       /\ IF bookedAsSent(outcome)
                          THEN /\ rStatus' = [rStatus EXCEPT ![r] = "sent"]
                               /\ rMessageId' = [rMessageId EXCEPT ![r] =
                                      IF responseMessageId(outcome, r) # "none"
                                      THEN responseMessageId(outcome, r) ELSE @]
                               /\ logs' = createSendingLog(c, r, instance, "attempted")
                               /\ detached' = [detached EXCEPT
                                      !.sentCount[c] = @ + 1,
                                      !.lastUsedAt =
                                          IF stamped THEN @ \cup {<<instance, clock + 1>>} ELSE @]
                               /\ UNCHANGED rFailedReason
                          ELSE /\ rStatus' = [rStatus EXCEPT ![r] = "failed"]
                               /\ rFailedReason' = [rFailedReason EXCEPT ![r] = reasonApiError]
                               /\ logs' = createSendingLog(c, r, instance, "api_error")
                               /\ detached' = [detached EXCEPT
                                      !.failedCount[c] = @ + 1,
                                      !.lastUsedAt =
                                          IF stamped THEN @ \cup {<<instance, clock + 1>>} ELSE @]
                               /\ UNCHANGED rMessageId
               /\ cur' = [cur EXCEPT ![p] = findNextRecipientToSend(c, rStatus')]
               /\ pc' = [pc EXCEPT ![p] = IF cur'[p] = "none" THEN "drain" ELSE "loop"]
    /\ last' = noLast
    /\ UNCHANGED <<hooks, cfg, sentCount, failedCount, optedOutCount, iStatus, iLastUsedAt,
                   queueVars>>

allProcessedAlways(remainingPending) == TRUE

\* Line 571: the test on the count of pending recipients.
allProcessed(remainingPending) == remainingPending = 0

\* The drain check of processCampaign, lines 563-588.
DrainCheck(p) ==
    /\ pc[p] = "drain"
    /\ LET c == mem[p].id
           remainingPending == Cardinality({r \in RecipientsOf(c) : rStatus[r] = "pending"})
       IN IF allProcessed(remainingPending)
          THEN /\ cStatus' = [cStatus EXCEPT ![c] = "completed"]
               /\ cEndTime' = [cEndTime EXCEPT ![c] = TRUE]
          ELSE UNCHANGED <<cStatus, cEndTime>>
    /\ pc' = [pc EXCEPT ![p] = "done"]
    /\ last' = noLast
    /\ UNCHANGED <<hooks, cfg, sentCount, failedCount, optedOutCount, rStatus, rMessageId,
                   rFailedReason, logs, iStatus, iLastUsedAt, clock, mem, cur,
                   detached, calls, queueVars>>

\* The store applies an update that was issued without await
\* (prisma.campaign.update(...).catch(...), prisma.instance.update(...).catch(...)).
ApplySentCount(c) ==
    /\ detached.sentCount[c] > 0
    /\ sentCount' = increment(sentCount, c)
    /\ detached' = [detached EXCEPT !.sentCount[c] = @ - 1]
    /\ last' = noLast
    /\ UNCHANGED <<hooks, cfg, cStatus, cEndTime, failedCount, optedOutCount, rStatus,
                   rMessageId, rFailedReason, logs, iStatus, iLastUsedAt, clock,
                   orchVars, calls, queueVars>>

ApplyFailedCount(c) ==
    /\ detached.failedCount[c] > 0
    /\ failedCount' = increment(failedCount, c)
    /\ detached' = [detached EXCEPT !.failedCount[c] = @ - 1]
    /\ last' = noLast
    /\ UNCHANGED <<hooks, cfg, cStatus, cEndTime, sentCount, optedOutCount, rStatus,
                   rMessageId, rFailedReason, logs, iStatus, iLastUsedAt, clock,
                   orchVars, calls, queueVars>>

ApplyLastUsedAt(stamp) ==
    /\ stamp \in detached.lastUsedAt
    /\ iLastUsedAt' = [iLastUsedAt EXCEPT ![stamp[1]] = stamp[2]]
    /\ detached' = [detached EXCEPT !.lastUsedAt = @ \ {stamp}]
    /\ last' = noLast
    /\ UNCHANGED <<hooks, cfg, cStatus, cEndTime, sentCount, failedCount, optedOutCount,
                   rStatus, rMessageId, rFailedReason, logs, iStatus, clock,
                   orchVars, calls, queueVars>>

(***************************************************************************)
(* webhookController.handleWebhook (src/controllers/webhook.controller.ts). *)
(***************************************************************************)
startsWith(s, prefix) ==
    Len(s) >= Len(prefix) /\ SubSeq(s, 1, Len(prefix)) = prefix

\* s.substring(n)
substring(s, n) == SubSeq(s, n + 1, Len(s))

\* s.split(d) for a one-character delimiter d
RECURSIVE split(_, _)
split(s, d) ==
    IF \E k \in 1..Len(s) : s[k] = d
    THEN LET at == CHOOSE k \in 1..Len(s) : s[k] = d /\ \A j \in 1..(k - 1) : s[j] # d
         IN <<SubSeq(s, 1, at - 1)>> \o split(SubSeq(s, at + 1, Len(s)), d)
    ELSE <<s>>

optOutPrefix == <<"o", "p", "t", "o", "u", "t", "_">>

\* Lines 177-224: the recipient and campaign ids a buttonId carries, ok = FALSE
\* when the handler answers without looking anything up.
parseOptOutButtonId(buttonId, remoteJid) ==
    LET parts == split(substring(buttonId, Len(optOutPrefix)), "_")
        dropped == [ok |-> FALSE, recipientId |-> <<>>, campaignId |-> <<>>]
    IN IF buttonId = <<>> \/ ~remoteJid THEN dropped
       ELSE IF ~startsWith(buttonId, optOutPrefix) THEN dropped
       ELSE IF Len(parts) # 2 THEN dropped
       ELSE IF parts[1] = <<>> \/ parts[2] = <<>> THEN dropped
       ELSE [ok |-> TRUE, recipientId |-> parts[1], campaignId |-> parts[2]]

\* A variant of findRecipient that looks the recipient up by id alone.
findRecipientByIdAlone(recipientId, campaignId) ==
    LET r == IdOfChars(recipientId)
    IN IF r \in Recipients THEN r ELSE "none"

\* prisma.recipient.findUnique({id, campaignId}): the recipient, or "none"
findRecipient(recipientId, campaignId) ==
    LET r == IdOfChars(recipientId)
    IN IF r \in Recipients /\ Chars(campaignIdOf(r)) = campaignId THEN r ELSE "none"

\* A variant of shouldOptOut that opts out again whatever the status is.
shouldOptOutAlways(currentStatus) == currentStatus = currentStatus

\* Line 233: clickedRecipient.status !== 'opted-out'
shouldOptOut(currentStatus) == currentStatus # "opted-out"

\* prisma.sendingLog.findUnique({id: messageId}): the row number, 0 when none
findSendingLog(rows, messageId) ==
    IF \E k \in 1..Len(rows) : LogIdOrder[k] = messageId
    THEN CHOOSE k \in 1..Len(rows) : LogIdOrder[k] = messageId
    ELSE 0

\* message.status || (message.ack !== undefined ? `ack_${message.ack}` : 'unknown')
newStatusOf(message) ==
    IF message.status # "none" THEN message.status
    ELSE IF message.ack # "none" THEN "ack_" \o message.ack
    ELSE "unknown"

successStatuses == {"sent", "delivered", "read", "ack_1", "ack_2", "ack_3", "ack_4"}
failedStatuses == {"failed", "error", "ack_-1"}

\* A variant of newRecipientStatus whose delivered branch leaves out the test
\* of the current status.
newRecipientStatusUnguarded(newStatus, currentRecipientStatus) ==
    IF newStatus = "ack_1" /\ currentRecipientStatus = "sending" THEN "sent"
    ELSE IF newStatus = "ack_2" THEN "delivered"
    ELSE IF newStatus \in {"ack_3", "ack_4"}
            /\ currentRecipientStatus \in {"sending", "sent", "delivered"}
    THEN "read"
    ELSE currentRecipientStatus

\* Lines 79-92: the status the recipient is given for an event of the success
\* statuses, its current status when the event does not move it.
newRecipientStatus(newStatus, currentRecipientStatus) ==
    IF newStatus = "ack_1" /\ currentRecipientStatus = "sending" THEN "sent"
    ELSE IF newStatus = "ack_2" /\ currentRecipientStatus \in {"sending", "sent"}
    THEN "delivered"
    ELSE IF newStatus \in {"ack_3", "ack_4"}
            /\ currentRecipientStatus \in {"sending", "sent", "delivered"}
    THEN "read"
    ELSE currentRecipientStatus

\* Lines 76-134: the recipient's status after an event with status newStatus.
recipientStatusAfter(newStatus, currentRecipientStatus) ==
    IF newStatus \in successStatuses
    THEN newRecipientStatus(newStatus, currentRecipientStatus)
    ELSE IF newStatus \in failedStatuses
            /\ currentRecipientStatus \notin {"failed", "opted-out"}
    THEN "failed"
    ELSE currentRecipientStatus

\* Whether the handler processes the message at all (lines 38-49).
isStatusUpdate(message) ==
    /\ message.fromMe
    /\ message.status # "none" \/ message.ack # "none"
    /\ message.id # "none"

\* Lines 35-165 for one message: the store after it.  A store error at the
\* lookup leaves the store as it is, one at the recipient update leaves the
\* SendingLog updated and the recipient as it was (lines 158-160 catch both).
applyMessage(st, message, fault) ==
    LET k == findSendingLog(st.logs, message.id)
        newStatus == newStatusOf(message)
        r == st.logs[k].recipientId
    IN IF ~isStatusUpdate(message) \/ fault = "lookup" \/ k = 0 THEN st
       ELSE [logs |-> [st.logs EXCEPT ![k].status = newStatus],
             rStatus |-> IF fault = "update" THEN st.rStatus
                         ELSE [st.rStatus EXCEPT ![r] = recipientStatusAfter(newStatus, @)]]

RECURSIVE applyMessages(_, _, _)
applyMessages(st, messages, fault) ==
    IF messages = <<>> THEN st
    ELSE applyMessages(applyMessage(st, Head(messages), fault), Tail(messages), fault)

\* Line 21: !event || !instanceName || !data
invalidPayload(payload) ==
    payload.event = "none" \/ payload.instanceName = "none" \/ ~payload.hasData

\* The HTTP status handleWebhook answers with.
responseCode(payload) == IF invalidPayload(payload) THEN 400 ELSE 200

\* prisma.instance.findUnique({name}): instances are named by their id here
findInstance(instanceName) == IF instanceName \in Instances THEN instanceName ELSE "none"

handleWebhook(payload, fault) ==
    LET event == payload.event
        parsed == parseOptOutButtonId(payload.buttonId, payload.remoteJid)
        clicked == IF parsed.ok THEN findRecipient(parsed.recipientId, parsed.campaignId)
                   ELSE "none"
        instance == findInstance(payload.instanceName)
        after == applyMessages([logs |-> logs, rStatus |-> rStatus], payload.messages, fault)
    IN /\ IF invalidPayload(payload)
          THEN UNCHANGED <<rStatus, logs, optedOutCount, iStatus>>
          ELSE IF event \in {"MESSAGES_UPSERT", "MESSAGES_UPDATE"}
          THEN /\ rStatus' = after.rStatus
               /\ logs' = after.logs
               /\ UNCHANGED <<optedOutCount, iStatus>>
          ELSE IF event = "INTERACTIVE_RESPONSE"
          THEN IF clicked # "none" /\ fault # "lookup" /\ shouldOptOut(rStatus[clicked])
               THEN /\ rStatus' = [rStatus EXCEPT ![clicked] = "opted-out"]
                    /\ optedOutCount' =
                          IF fault = "update" THEN optedOutCount
                          ELSE [optedOutCount EXCEPT ![campaignIdOf(clicked)] = @ + 1]
                    /\ UNCHANGED <<logs, iStatus>>
               ELSE UNCHANGED <<rStatus, logs, optedOutCount, iStatus>>
          ELSE IF event = "CONNECTION_UPDATE"
          THEN /\ iStatus' = IF instance # "none" /\ fault = "none"
                             THEN [iStatus EXCEPT ![instance] =
                                      IF payload.state = "none" THEN "unknown"
                                      ELSE payload.state]
                             ELSE iStatus
               /\ UNCHANGED <<rStatus, logs, optedOutCount>>
          ELSE IF event = "QRCODE_UPDATED"
          THEN /\ iStatus' = IF instance # "none" /\ payload.qrcode /\ fault = "none"
                             THEN [iStatus EXCEPT ![instance] = "qrcode"]
                             ELSE iStatus
               /\ UNCHANGED <<rStatus, logs, optedOutCount>>
          ELSE UNCHANGED <<rStatus, logs, optedOutCount, iStatus>>
       /\ last' = [op |-> "handleWebhook", code |-> responseCode(payload),
                   payload |-> payload, fault |-> fault,
                   changed |-> <<rStatus, logs, optedOutCount, iStatus>>'
                               # <<rStatus, logs, optedOutCount, iStatus>>]
       /\ UNCHANGED <<hooks, cfg, cStatus, cEndTime, sentCount, failedCount, rMessageId,
                      rFailedReason, iLastUsedAt, clock, orchVars, detached, calls,
                      queueVars>>

(***************************************************************************)
(* The opt-out branch of handleWebhook at the grain of its awaits: the     *)
(* read of the Recipient, the update of its status, the increment of the   *)
(* counter.  Each element of Hooks is one request; requests are served     *)
(* concurrently and interleave at the awaits.  The answer is 200 in every  *)
(* case.                                                                   *)
(***************************************************************************)
Hooks == {"h1", "h2"}

idleHook == [pc |-> "idle", recipient |-> "none"]

\* Lines 186-233: decode the button id, read the Recipient, test its status.
OptOutRead(h, payload) ==
    /\ hooks[h].pc = "idle"
    /\ payload.event = "INTERACTIVE_RESPONSE"
    /\ ~invalidPayload(payload)
    /\ LET parsed == parseOptOutButtonId(payload.buttonId, payload.remoteJid)
           clicked == IF parsed.ok
                      THEN findRecipient(parsed.recipientId, parsed.campaignId)
                      ELSE "none"
       IN hooks' = [hooks EXCEPT ![h] =
                       IF clicked # "none" /\ shouldOptOut(rStatus[clicked])
                       THEN [pc |-> "update", recipient |-> clicked]
                       ELSE [pc |-> "done", recipient |-> "none"]]
    /\ last' = noLast
    /\ UNCHANGED <<cfg, storeVars, clock, orchVars, detached, calls, queueVars>>

\* Lines 234-242: prisma.recipient.update({status: 'opted-out'}).
OptOutUpdate(h) ==
    /\ hooks[h].pc = "update"
    /\ rStatus' = [rStatus EXCEPT ![hooks[h].recipient] = "opted-out"]
    /\ hooks' = [hooks EXCEPT ![h].pc = "increment"]
    /\ last' = noLast
    /\ UNCHANGED <<cfg, cStatus, cEndTime, sentCount, failedCount, optedOutCount,
                   rMessageId, rFailedReason, logs, iStatus, iLastUsedAt, clock,
                   orchVars, detached, calls, queueVars>>

\* Lines 244-250: prisma.campaign.update({optedOutCount: {increment: 1}}),
\* one UPDATE statement of the store.
OptOutIncrement(h) ==
    /\ hooks[h].pc = "increment"
    /\ optedOutCount' = increment(optedOutCount, campaignIdOf(hooks[h].recipient))
    /\ hooks' = [hooks EXCEPT ![h].pc = "done"]
    /\ last' = noLast
    /\ UNCHANGED <<cfg, cStatus, cEndTime, sentCount, failedCount, rStatus,
                   rMessageId, rFailedReason, logs, iStatus, iLastUsedAt, clock,
                   orchVars, detached, calls, queueVars>>

(***************************************************************************)
(* startCampaign (src/controllers/campaign.controller.ts): the queue path. *)
(***************************************************************************)
idleStart == [pc |-> "idle", id |-> "none", recipients |-> <<>>, pending0 |-> {},
              availableInstances |-> <<>>, instanceIndex |-> 0]

\* Lines 91-117: the pending recipients of the campaign, oldest first.
pendingRecipients(c) ==
    SelectSeq(RecipientOrder, LAMBDA r : campaignIdOf(r) = c /\ rStatus[r] = "pending")

\* Lines 100-111: the connected instances among the campaign's instanceIds.
connectedNow == SelectSeq(InstanceOrder, LAMBDA i : iStatus[i] = "connected")

startRejectionWithoutRunningTest(campaignId, isOwner) ==
    IF campaignId \notin Campaigns THEN 404
    ELSE IF ~isOwner THEN 403
    ELSE IF Len(pendingRecipients(campaignId)) = 0 THEN 400
    ELSE IF cfg[campaignId].useNumberRotation /\ Len(connectedNow) = 0 THEN 400
    ELSE 0

\* Lines 119-138: the status of the rejection, 0 when the request is accepted.
startRejection(campaignId, isOwner) ==
    IF campaignId \notin Campaigns THEN 404
    ELSE IF ~isOwner THEN 403
    ELSE IF cStatus[campaignId] = "running" THEN 400
    ELSE IF Len(pendingRecipients(campaignId)) = 0 THEN 400
    ELSE IF cfg[campaignId].useNumberRotation /\ Len(connectedNow) = 0 THEN 400
    ELSE 0

response(op, code) == [noLast EXCEPT !.op = op, !.code = code]

\* Lines 150-169: the instance of the job for the next recipient, "none" when
\* there is no connected instance.
instanceToUse(useNumberRotation, instances, instanceIndex) ==
    IF Len(instances) = 0 THEN "none"
    ELSE IF useNumberRotation THEN instances[(instanceIndex % Len(instances)) + 1]
    ELSE instances[1]

attempts == 3

sendCampaignMessageJob(campaignId, recipientId, instanceId) ==
    [campaignId |-> campaignId, recipientId |-> recipientId, instanceId |-> instanceId,
     messageButtons |-> cfg[campaignId].messageButtons,
     messageTextTemplate |-> cfg[campaignId].messageTextTemplate,
     messageMediaTemplate |-> cfg[campaignId].messageMediaTemplate,
     attemptsMade |-> 0]

reasonNoInstance == "Nenhuma instancia disponivel"

\* The startCampaign requests that can be in progress at once (Express serves
\* each request on its own chain of awaits) and the slots of the worker
\* (concurrency: 5 in src/worker.ts; two are enough to overlap).
Requests == {"q1", "q2"}
Workers == {"w1", "w2"}

\* Lines 86-138: load the campaign with its pending recipients and connected
\* instances, validate.
StartCampaign(q, campaignId, isOwner) ==
    /\ sc[q].pc \in {"idle", "done"}
    /\ IF startRejection(campaignId, isOwner) # 0
       THEN /\ last' = response("startCampaign", startRejection(campaignId, isOwner))
            /\ sc' = [sc EXCEPT ![q] = [idleStart EXCEPT !.pc = "done"]]
       ELSE /\ sc' = [sc EXCEPT ![q] =
                        [pc |-> "run", id |-> campaignId,
                         recipients |-> pendingRecipients(campaignId),
                         pending0 |-> Range(pendingRecipients(campaignId)),
                         availableInstances |-> connectedNow, instanceIndex |-> 0]]
            /\ last' = noLast
    /\ UNCHANGED <<hooks, cfg, cStatus, cEndTime, sentCount, failedCount, optedOutCount, rStatus,
                   rMessageId, rFailedReason, logs, iStatus, iLastUsedAt, clock, orchVars,
                   detached, calls, queue, active>>

\* Lines 141-145: set the campaign running.
StartRun(q) ==
    /\ sc[q].pc = "run"
    /\ cStatus' = [cStatus EXCEPT ![sc[q].id] = "running"]
    /\ cfg' = [cfg EXCEPT ![sc[q].id].startTime = "past"]
    /\ sc' = [sc EXCEPT ![q].pc = "loop"]
    /\ last' = noLast
    /\ UNCHANGED <<hooks, cEndTime, sentCount, failedCount, optedOutCount, rStatus, rMessageId,
                   rFailedReason, logs, iStatus, iLastUsedAt, clock, orchVars,
                   detached, calls, queue, active>>

\* After the last recipient of the loop: the 200 answer (line 209).
afterRecipient(q, rest) ==
    /\ sc' = [sc EXCEPT ![q].recipients = rest,
                        ![q].pc = IF rest = <<>> THEN "done" ELSE "loop",
                        ![q].instanceIndex =
                            IF cfg[sc[q].id].useNumberRotation
                               /\ Len(sc[q].availableInstances) > 0
                            THEN @ + 1 ELSE @]
    /\ last' = IF rest = <<>> THEN response("startCampaign", 200) ELSE noLast

failedStartStatusKept == "running"

\* Line 216: the status the catch block writes.
failedStartStatus == "draft"

\* Lines 148-198, one iteration up to its first store or queue write: the
\* recipient is marked failed when there is no instance, else its job is
\* added.  When the write throws, the campaign is set back to draft and the
\* answer is 500 (lines 211-219).
StartEnqueue(q, throws) ==
    /\ sc[q].pc = "loop"
    /\ LET r == Head(sc[q].recipients)
           instance == instanceToUse(cfg[sc[q].id].useNumberRotation,
                                     sc[q].availableInstances, sc[q].instanceIndex)
       IN IF throws
          THEN /\ cStatus' = [cStatus EXCEPT ![sc[q].id] = failedStartStatus]
               /\ sc' = [sc EXCEPT ![q].pc = "done"]
               /\ last' = response("startCampaign", 500)
               /\ UNCHANGED <<rStatus, rFailedReason, queue>>
          ELSE IF instance = "none"
          THEN /\ rStatus' = [rStatus EXCEPT ![r] = "failed"]
               /\ rFailedReason' = [rFailedReason EXCEPT ![r] = reasonNoInstance]
               /\ afterRecipient(q, Tail(sc[q].recipients))
               /\ UNCHANGED <<cStatus, queue>>
          ELSE /\ queue' = Append(queue, sendCampaignMessageJob(sc[q].id, r, instance))
               /\ sc' = [sc EXCEPT ![q].pc = "mark"]
               /\ last' = noLast
               /\ UNCHANGED <<cStatus, rStatus, rFailedReason>>
    /\ UNCHANGED <<hooks, cfg, cEndTime, sentCount, failedCount, optedOutCount, rMessageId,
                   logs, iStatus, iLastUsedAt, clock, orchVars, detached, calls, active>>

\* Lines 200-204: the recipient whose job was added is marked queued.
StartMarkQueued(q) ==
    /\ sc[q].pc = "mark"
    /\ rStatus' = [rStatus EXCEPT ![Head(sc[q].recipients)] = "queued"]
    /\ afterRecipient(q, Tail(sc[q].recipients))
    /\ UNCHANGED <<hooks, cfg, cStatus, cEndTime, sentCount, failedCount, optedOutCount,
                   rMessageId, rFailedReason, logs, iStatus, iLastUsedAt, clock,
                   orchVars, detached, calls, queue, active>>

(***************************************************************************)
(* The campaign-message worker (src/worker.ts): one job per slot.          *)
(***************************************************************************)
noJob == [campaignId |-> "none", recipientId |-> "none", instanceId |-> "none",
          messageButtons |-> [kind |-> "null", list |-> <<>>],
          messageTextTemplate |-> "", messageMediaTemplate |-> FALSE,
          attemptsMade |-> 0]

reasonNoTemplate == "Nenhum template de mensagem fornecido."
reasonMediaNotImplemented == "Envio de midia nao implementado no servico."
reasonGatewayError == "Erro na API Evolution"
reasonWorkerError == "Erro interno no worker: Falha no envio da API: Erro na API Evolution"

\* What EvolutionAPIService.sendText / sendButtons return: success with a
\* messageId, success without one, or {success: false, error}; they catch
\* every exception themselves.
WorkerOutcomes == {"ok", "ok_noid", "fail"}

\* Lines 83-132: the message the job sends; kind "none" when it makes no
\* gateway call (media is not implemented, or there is no template).
workerPayload(job) ==
    IF job.messageButtons.kind # "null"
    THEN [kind |-> "buttons",
          buttons |-> IF job.messageButtons.kind = "object"
                      THEN job.messageButtons.list ELSE <<>>]
    ELSE IF job.messageMediaTemplate THEN noPayload
    ELSE IF job.messageTextTemplate # "" THEN [kind |-> "text", buttons |-> <<>>]
    ELSE noPayload

\* sendResult of lines 95-132
sendResult(job, outcome) ==
    IF workerPayload(job).kind # "none"
    THEN [success |-> outcome # "fail",
          error |-> IF outcome = "fail" THEN reasonGatewayError ELSE "none"]
    ELSE [success |-> FALSE,
          error |-> IF job.messageButtons.kind = "null" /\ job.messageMediaTemplate
                    THEN reasonMediaNotImplemented ELSE reasonNoTemplate]

rethrownAlways(error) == TRUE

\* Line 203: the failures that are rethrown for BullMQ to retry
rethrown(error) == error \notin {reasonNoTemplate, reasonMediaNotImplemented}

\* Lines 38-66: a free slot takes the oldest waiting job and reads its
\* recipient; the job ends there unless the recipient is queued.
stillQueuedAlways(status) == TRUE

\* Line 62: the job goes on only for a recipient that is still queued.
stillQueued(status) == status = "queued"

WorkerTake(w) ==
    /\ active[w] = noJob
    /\ queue # <<>>
    /\ queue' = Tail(queue)
    /\ active' = IF stillQueued(rStatus[Head(queue).recipientId])
                 THEN [active EXCEPT ![w] = Head(queue)] ELSE active
    /\ last' = noLast
    /\ UNCHANGED <<hooks, cfg, storeVars, clock, orchVars, detached, calls, sc>>

\* Lines 69-248: after the pacing delay, the send and its bookkeeping.  A
\* failure that is rethrown is booked a second time by the catch block (its
\* test reads the recipient object of line 56, still queued) and the job is
\* retried while attempts remain.
WorkerSend(w, outcome) ==
    /\ active[w] # noJob
    /\ LET job == active[w]
           c == job.campaignId
           r == job.recipientId
           payload == workerPayload(job)
           result == sendResult(job, outcome)
           row(status) == [campaignId |-> c, recipientId |-> r,
                           instanceId |-> job.instanceId, status |-> status]
       IN /\ calls' = IF payload.kind = "none" THEN calls
                      ELSE Append(calls, gatewayCall("worker", c, r, job.instanceId,
                                                     payload, outcome))
          /\ IF result.success
             THEN /\ rStatus' = [rStatus EXCEPT ![r] = "sent"]
                  /\ rMessageId' = [rMessageId EXCEPT ![r] =
                         IF outcome = "ok" THEN gatewayMessageId(r) ELSE @]
                  /\ logs' = Append(logs, row("success"))
                  /\ sentCount' = increment(sentCount, c)
                  /\ UNCHANGED <<rFailedReason, failedCount, queue>>
             ELSE IF ~rethrown(result.error)
             THEN /\ rStatus' = [rStatus EXCEPT ![r] = "failed"]
                  /\ rFailedReason' = [rFailedReason EXCEPT ![r] = result.error]
                  /\ logs' = Append(logs, row("api_error"))
                  /\ failedCount' = increment(failedCount, c)
                  /\ UNCHANGED <<rMessageId, sentCount, queue>>
             ELSE /\ rStatus' = [rStatus EXCEPT ![r] = "failed"]
                  /\ rFailedReason' = [rFailedReason EXCEPT ![r] = reasonWorkerError]
                  /\ logs' = Append(Append(logs, row("api_error")), row("worker_error"))
                  /\ failedCount' = increment(increment(failedCount, c), c)
                  /\ queue' = IF job.attemptsMade + 1 < attempts
                              THEN Append(queue, [job EXCEPT !.attemptsMade = @ + 1])
                              ELSE queue
                  /\ UNCHANGED <<rMessageId, sentCount>>
    /\ active' = [active EXCEPT ![w] = noJob]
    /\ last' = noLast
    /\ UNCHANGED <<hooks, cfg, cStatus, cEndTime, optedOutCount, iStatus, iLastUsedAt, clock,
                   orchVars, detached, sc>>

(***************************************************************************)
(* Initial states.                                                         *)
(***************************************************************************)
InitStore ==
    /\ cEndTime = [c \in Campaigns |-> FALSE]
    /\ sentCount = [c \in Campaigns |-> 0]
    /\ failedCount = [c \in Campaigns |-> 0]
    /\ optedOutCount = [c \in Campaigns |-> 0]
    /\ rStatus = [r \in Recipients |-> "pending"]
    /\ rMessageId = [r \in Recipients |-> "none"]
    /\ rFailedReason = [r \in Recipients |-> "none"]
    /\ logs = <<>>
    /\ iLastUsedAt = [i \in Instances |-> 0]
    /\ clock = 0

InitProcesses ==
    /\ pc = [p \in Passes |-> "idle"]
    /\ mem = [p \in Passes |-> idleMem]
    /\ cur = [p \in Passes |-> "none"]
    /\ detached = noDetached
    /\ calls = <<>>
    /\ sc = [q \in Requests |-> idleStart]
    /\ queue = <<>>
    /\ active = [w \in Workers |-> noJob]
    /\ hooks = [h \in Hooks |-> idleHook]
    /\ last = noLast

\* One orchestrator pass at a time over campaigns that were created and set
\* pending or running, with any configuration and any instance states.
InitOrch ==
    /\ InitStore
    /\ InitProcesses
    /\ cfg \in [Campaigns -> Configs]
    /\ cfg["c2"] = defaultConfig
    /\ cfg["c1"].startTime = "null"
    /\ cStatus \in [Campaigns -> {"pending", "running"}]
    /\ cStatus["c2"] = "pending"
    /\ iStatus \in [Instances -> {"connected", "disconnected"}]

NextOrch ==
    \/ \E c \in Campaigns : ProcessNamedCampaign("p1", c)
    \/ ProcessNextCampaign("p1")
    \/ \E o \in GatewayOutcomes : LoopStep("p1", o)
    \/ DrainCheck("p1")
    \/ \E c \in Campaigns : ApplySentCount(c)
    \/ \E c \in Campaigns : ApplyFailedCount(c)
    \/ \E stamp \in detached.lastUsedAt : ApplyLastUsedAt(stamp)

SpecOrch == InitOrch /\ [][NextOrch]_vars

(***************************************************************************)
(* The reconciler next to one orchestrator pass over campaign c1: webhook  *)
(* events arrive at any moment, about any message id, in any order and any *)
(* number of times.                                                        *)
(***************************************************************************)
statusMessage(id, status, ack) == [fromMe |-> TRUE, id |-> id, status |-> status, ack |-> ack]

\* <<status, ack>> of a delivery-status event
ReconReports == {<<"none", "-1">>, <<"none", "1">>, <<"none", "2">>, <<"none", "3">>,
                 <<"delivered", "none">>, <<"read", "none">>}

\* An event carries the id of the first SendingLog row ("L1"), the gateway's
\* messageId of r1's message ("m1"), or no id.
ReconMessages ==
    {statusMessage("L1", rep[1], rep[2]) : rep \in ReconReports}
    \cup {statusMessage("m1", "none", "3"), statusMessage("m1", "none", "2"),
          statusMessage("none", "none", "2"), noMessage,
          [statusMessage("L1", "none", "3") EXCEPT !.fromMe = FALSE]}

\* data is one message, or an array of two about the first SendingLog row
ReconBatches ==
    {<<m>> : m \in ReconMessages}
    \cup {<<statusMessage("L1", "none", "3"), statusMessage("L1", "none", "2")>>,
          <<statusMessage("L1", "none", "2"), statusMessage("L1", "none", "1")>>}

messagesPayload(event, messages) ==
    [payloadOf(event, "i1", TRUE) EXCEPT !.messages = messages]

\* buttonId `optout_${recipientId}_${campaignId}`
optOutResponseId(recipientId, campaignId) ==
    optOutPrefix \o Chars(recipientId) \o <<"_">> \o Chars(campaignId)

WellFormedButtonIds ==
    {optOutResponseId("r1", "c1"), optOutResponseId("r3", "c1"),
     optOutResponseId("r9", "c1"), optOutResponseId("r1", "c9")}

MalformedButtonIds ==
    { <<>>,
      <<"y", "e", "s">>,
      optOutPrefix \o Chars("r1"),
      optOutPrefix \o <<"_">> \o Chars("c1"),
      optOutResponseId("r1", "c1") \o <<"_", "x">>,
      optOutButtonId("c1", "r1") }

interactivePayload(buttonId, remoteJid) ==
    [payloadOf("INTERACTIVE_RESPONSE", "i1", TRUE) EXCEPT
        !.buttonId = buttonId, !.remoteJid = remoteJid]

ReconPayloads ==
    {messagesPayload("MESSAGES_UPDATE", b) : b \in ReconBatches}
    \cup {messagesPayload("MESSAGES_UPSERT", <<statusMessage("L1", "none", "2")>>)}
    \cup {interactivePayload(b, TRUE) : b \in WellFormedButtonIds \cup MalformedButtonIds}
    \cup {interactivePayload(optOutResponseId("r1", "c1"), FALSE)}

\* The requests during which the store fails, at the lookup ("lookup") or at
\* the write that follows the first one ("update").
FaultyPayloads ==
    {messagesPayload("MESSAGES_UPDATE", <<statusMessage("L1", "none", "2")>>),
     interactivePayload(optOutResponseId("r1", "c1"), TRUE)}

Faults == {"lookup", "update"}

\* The recipient of a message presses its opt-out control: the event carries
\* the id of that control as the payload had it.
OptOutClick ==
    \E k \in 1..Len(calls) : \E b \in optOutIds(calls[k].buttons) :
        handleWebhook(interactivePayload(b, TRUE), "none")

InitRecon ==
    /\ InitStore
    /\ InitProcesses
    /\ cfg = [c \in Campaigns |-> defaultConfig]
    /\ cStatus = [c \in Campaigns |-> IF c = "c1" THEN "pending" ELSE "draft"]
    /\ iStatus = [i \in Instances |-> IF i = "i1" THEN "connected" ELSE "disconnected"]

NextRecon ==
    \/ ProcessNamedCampaign("p1", "c1")
    \/ \E o \in {"ok", "throw"} : LoopStep("p1", o)
    \/ DrainCheck("p1")
    \/ \E c \in Campaigns : ApplySentCount(c)
    \/ \E c \in Campaigns : ApplyFailedCount(c)
    \/ \E payload \in ReconPayloads : handleWebhook(payload, "none")
    \/ \E payload \in FaultyPayloads, fault \in Faults : handleWebhook(payload, fault)
    \/ OptOutClick

SpecRecon == InitRecon /\ [][NextRecon]_vars

(***************************************************************************)
(* Properties of the reconciler (SpecRecon).                               *)
(***************************************************************************)
MessageEvents == {"MESSAGES_UPSERT", "MESSAGES_UPDATE"}

\* The step is a webhook request of one of the given event types.
served(events) == last'.op = "handleWebhook" /\ last'.payload.event \in events

\* Every message of the request reports one of the given statuses.
allReport(payload, statuses) ==
    \A k \in 1..Len(payload.messages) : newStatusOf(payload.messages[k]) \in statuses

rank(status) ==
    CASE status = "sent" -> 1 [] status = "delivered" -> 2 [] status = "read" -> 3
      [] OTHER -> 0

C2_ReadByGatewayMessageId ==
    [][\A r \in Recipients :
          (/\ served({"MESSAGES_UPDATE"})
           /\ last'.fault = "none"
           /\ rStatus[r] = "sent"
           /\ rMessageId[r] # "none"
           /\ last'.payload.messages = <<statusMessage(rMessageId[r], "none", "3")>>)
          => rStatus'[r] = "read"]_vars

\* C3: an opt-out request for an existing (recipientId, campaignId), processed
\* without store error, leaves the Recipient opted-out; it adds one to the
\* campaign's optedOutCount when the Recipient was not opted-out before and
\* changes no Recipient and no counter when it was, so that the same event
\* processed twice in sequence counts once.
C3_OptOutOnce ==
    [][\A r \in Recipients :
          (/\ served({"INTERACTIVE_RESPONSE"})
           /\ last'.fault = "none"
           /\ last'.payload.remoteJid
           /\ last'.payload.buttonId = optOutResponseId(r, campaignIdOf(r)))
          => /\ rStatus'[r] = "opted-out"
             /\ \A q \in Recipients \ {r} : rStatus'[q] = rStatus[q]
             /\ UNCHANGED <<sentCount, failedCount>>
             /\ IF rStatus[r] = "opted-out"
                THEN UNCHANGED <<rStatus, optedOutCount>>
                ELSE optedOutCount' =
                        [optedOutCount EXCEPT ![campaignIdOf(r)] = @ + 1]]_vars

\* The opt-out event of r1 has been processed a second time: the request
\* changed nothing, r1 is opted-out and was counted once.
C3_Witness ==
    /\ last.op = "handleWebhook"
    /\ last.payload = interactivePayload(optOutResponseId("r1", "c1"), TRUE)
    /\ last.fault = "none"
    /\ ~last.changed
    /\ rStatus["r1"] = "opted-out"
    /\ optedOutCount["c1"] = 1

\* The ids of the SendingLog rows there are.
sendingLogIds == {LogIdOrder[k] : k \in 1..Len(logs)}

\* The request cannot be correlated: its messages carry no id or the id of no
\* SendingLog; its control id is absent, malformed, or names a (recipientId,
\* campaignId) that is no Recipient.
uncorrelated(payload) ==
    \/ /\ payload.event \in MessageEvents
       /\ \A k \in 1..Len(payload.messages) :
             payload.messages[k].id = "none" \/ payload.messages[k].id \notin sendingLogIds
    \/ /\ payload.event = "INTERACTIVE_RESPONSE"
       /\ \/ payload.buttonId \in MalformedButtonIds
          \/ \E r \in {"r1", "r2", "r3", "r9"}, c \in {"c1", "c2", "c9"} :
                /\ payload.buttonId = optOutResponseId(r, c)
                /\ r \notin Recipients \/ campaignIdOf(r) # c

\* C9: a request that cannot be correlated changes no Recipient status, no
\* campaign counter and no SendingLog.
C9_UncorrelatedDropped ==
    [][(served(MessageEvents \cup {"INTERACTIVE_RESPONSE"}) /\ uncorrelated(last'.payload))
       => UNCHANGED <<rStatus, rMessageId, rFailedReason, sentCount, failedCount,
                      optedOutCount, logs, cStatus>>]_vars

\* An opt-out event naming r1 with a campaign that is not r1's has been
\* processed while r1 was sent: it changed nothing.
C9_Witness ==
    /\ last.op = "handleWebhook"
    /\ last.payload = interactivePayload(optOutResponseId("r1", "c9"), TRUE)
    /\ ~last.changed
    /\ rStatus["r1"] = "sent"
    /\ Len(logs) >= 1

(***************************************************************************)
(* Properties of the orchestrator (SpecOrch).                              *)
(***************************************************************************)
\* C5: in every payload processCampaign sends for a recipient r of a campaign
\* whose own button list (if it has one) holds no opt-out control, the one
\* opt-out control carries the id built for r itself.
C5_OptOutIdNamesRecipient ==
    \A k \in 1..Len(calls) :
        (/\ calls[k].path = "orchestrator"
         /\ ~hasOptOutButton(cfg[calls[k].campaignId].messageButtons.list))
        => optOutIds(calls[k].buttons)
              = {optOutButtonId(calls[k].campaignId, calls[k].recipientId)}

successfulCalls(c) ==
    {k \in 1..Len(calls) : calls[k].campaignId = c /\ calls[k].outcome \in {"ok", "ok_noid"}}

\* C6: a Recipient is sent only if a gateway call for it was acknowledged as a
\* success, and a campaign's sentCount (with the increments already issued)
\* never exceeds the number of its acknowledged calls.
C6_SentOnlyOnSuccess ==
    /\ \A r \in Recipients :
          rStatus[r] = "sent"
          => \E k \in successfulCalls(campaignIdOf(r)) : calls[k].recipientId = r
    /\ \A c \in Campaigns :
          sentCount[c] + detached.sentCount[c] <= Cardinality(successfulCalls(c))

connectedInstances(instances) ==
    {i \in Instances : instances[i].status = "connected"}

\* C7: when a processCampaign run over a campaign with rotation off, one
\* connected identity and N >= 1 pending recipients has finished and the counter
\* updates it issued are applied, each of the N recipients is sent or failed,
\* sentCount + failedCount has grown by N and the campaign is completed.
C7_RunAccountsForAll ==
    \A p \in {"p1"} :
        (/\ pc[p] = "done"
         /\ ~cfg[mem[p].id].useNumberRotation
         /\ Cardinality(connectedInstances(mem[p].instances)) = 1
         /\ mem[p].pending0 # {}
         /\ detached.sentCount[mem[p].id] = 0
         /\ detached.failedCount[mem[p].id] = 0)
        => /\ \A r \in mem[p].pending0 : rStatus[r] \in {"sent", "failed"}
           /\ sentCount[mem[p].id] + failedCount[mem[p].id]
                 = mem[p].sent0 + mem[p].failed0 + Cardinality(mem[p].pending0)
           /\ cStatus[mem[p].id] = "completed"

(***************************************************************************)
(* The queue path next to the orchestrator: startCampaign requests for c1  *)
(* (and for a campaign that does not exist) while a pass processes c2.      *)
(***************************************************************************)
InitStart ==
    /\ InitStore
    /\ InitProcesses
    /\ cfg \in [Campaigns -> Configs]
    /\ cfg["c2"] = defaultConfig
    /\ cfg["c1"].startTime = "null"
    /\ cfg["c1"].messageButtons.kind = "null"
    /\ cStatus \in [Campaigns -> {"draft", "pending", "paused"}]
    /\ cStatus["c2"] = "pending"
    /\ iStatus \in [Instances -> {"connected", "disconnected"}]

NextStart ==
    \/ \E c \in {"c1", "c9"}, isOwner \in BOOLEAN : StartCampaign("q1", c, isOwner)
    \/ StartRun("q1")
    \/ \E throws \in BOOLEAN : StartEnqueue("q1", throws)
    \/ StartMarkQueued("q1")
    \/ ProcessNamedCampaign("p1", "c2")
    \/ \E o \in {"ok", "throw"} : LoopStep("p1", o)
    \/ DrainCheck("p1")
    \/ \E c \in Campaigns : ApplySentCount(c)
    \/ \E c \in Campaigns : ApplyFailedCount(c)

SpecStart == InitStart /\ [][NextStart]_vars

\* The campaign was paused by the run and nothing was sent or marked.
pausedUntouched(c, pending0) ==
    /\ cStatus[c] = "paused"
    /\ cEndTime[c]
    /\ \A k \in 1..Len(calls) : calls[k].campaignId # c
    /\ \A r \in pending0 : rStatus[r] = "pending"

\* What processCampaign guarantees of a run that found pending recipients and
\* no connected identity.
orchestratorPauses ==
    (/\ pc["p1"] = "done"
     /\ mem["p1"].pending0 # {}
     /\ connectedInstances(mem["p1"].instances) = {})
    => pausedUntouched(mem["p1"].id, mem["p1"].pending0)

\* C8: after a run over a campaign with pending recipients and no connected
\* identity - a processCampaign pass that has finished, a startCampaign
\* request that was answered 200 - the campaign is paused with endTime set, no
\* gateway call was made for it and each of those recipients is still pending.
C8_NoIdentityPauses ==
    /\ orchestratorPauses
    /\ (/\ last.op = "startCampaign"
        /\ last.code = 200
        /\ sc["q1"].pending0 # {}
        /\ sc["q1"].availableInstances = <<>>)
       => pausedUntouched(sc["q1"].id, sc["q1"].pending0)

\* C4: the opt-out control id generateMessagePayload built for (campaignId,
\* recipientId) is decoded by the INTERACTIVE_RESPONSE handler to that
\* recipientId and campaignId, so that the click on the control of a message
\* sent to a Recipient leaves that Recipient opted-out.
C4_BuiltIdDecodes ==
    [][\A k \in 1..Len(calls) :
          LET c == calls[k].campaignId
              r == calls[k].recipientId
          IN (/\ served({"INTERACTIVE_RESPONSE"})
              /\ last'.fault = "none"
              /\ last'.payload.remoteJid
              /\ last'.payload.buttonId = optOutButtonId(c, r)
              /\ optOutButtonId(c, r) \in optOutIds(calls[k].buttons))
             => /\ parseOptOutButtonId(optOutButtonId(c, r), TRUE)
                     = [ok |-> TRUE, recipientId |-> Chars(r), campaignId |-> Chars(c)]
                /\ rStatus'[r] = "opted-out"]_vars

(***************************************************************************)
(* Every kind of request the webhook endpoint can receive, next to one     *)
(* orchestrator pass over c1.                                               *)
(***************************************************************************)
connectionPayload(instanceName, state) ==
    [payloadOf("CONNECTION_UPDATE", instanceName, TRUE) EXCEPT !.state = state]

qrcodePayload(instanceName, qrcode) ==
    [payloadOf("QRCODE_UPDATED", instanceName, TRUE) EXCEPT !.qrcode = qrcode]

AckPayloads ==
    {payloadOf("none", "i1", TRUE),
     payloadOf("MESSAGES_UPDATE", "none", TRUE),
     payloadOf("MESSAGES_UPDATE", "i1", FALSE),
     payloadOf("CALL", "i1", TRUE),
     messagesPayload("MESSAGES_UPDATE", <<statusMessage("L1", "none", "2")>>),
     messagesPayload("MESSAGES_UPSERT", <<>>),
     interactivePayload(optOutResponseId("r1", "c1"), TRUE)}
    \cup {connectionPayload(n, st) : n \in {"i2", "i9"}, st \in {"none", "connected"}}
    \cup {qrcodePayload("i2", q) : q \in BOOLEAN}

\* The requests during which the store fails.
AckFaultyPayloads ==
    {interactivePayload(optOutResponseId("r1", "c1"), TRUE),
     connectionPayload("i2", "connected")}

InitAck == InitRecon

NextAck ==
    \/ ProcessNamedCampaign("p1", "c1")
    \/ LoopStep("p1", "ok")
    \/ DrainCheck("p1")
    \/ \E c \in Campaigns : ApplySentCount(c)
    \/ \E payload \in AckPayloads : handleWebhook(payload, "none")
    \/ \E payload \in AckFaultyPayloads, fault \in Faults : handleWebhook(payload, fault)

SpecAck == InitAck /\ [][NextAck]_vars

\* C10: every request handleWebhook has served was answered with HTTP 200.
C10_AlwaysAcknowledged == last.op = "handleWebhook" => last.code = 200

(***************************************************************************)
(* processSpintax: src/utils/spintax.ts (the orchestrator's) and           *)
(* src/services/spintax.service.ts (the worker's).  Texts are sequences of *)
(* characters; Math.random() is the sequence of draws `picks`, the k-th     *)
(* substitution using the k-th draw (the last one again when they run out). *)
(***************************************************************************)
MaxTemplateLen == 5
MaxPicks == 2

SpinChars == {"a", " ", "{", "|", "}"}
SpinTemplates == UNION {[1..n -> SpinChars] : n \in 0..MaxTemplateLen}
Picks == [1..MaxPicks -> {0, 1}]

\* The position of the first "}" after position i, 0 when there is none.
indexOfClose(text, i) ==
    IF \E j \in (i + 1)..Len(text) : text[j] = "}"
    THEN CHOOSE j \in (i + 1)..Len(text) :
             text[j] = "}" /\ \A m \in (i + 1)..(j - 1) : text[m] # "}"
    ELSE 0

\* /\{([^}]+)\}/ matches at position i: a "{", one character or more that are
\* not "}", a "}".
matchesAt(text, i) == text[i] = "{" /\ indexOfClose(text, i) >= i + 2

\* spintaxRegex.exec(text) with lastIndex (0-based): the first match that
\* starts at or after it; index and end are the positions of its braces,
\* index = 0 when there is no match.
regexExec(text, lastIndex) ==
    IF \E i \in (lastIndex + 1)..Len(text) : matchesAt(text, i)
    THEN LET i == CHOOSE k \in (lastIndex + 1)..Len(text) :
                     matchesAt(text, k)
                     /\ \A m \in (lastIndex + 1)..(k - 1) : ~matchesAt(text, m)
         IN [index |-> i, end |-> indexOfClose(text, i)]
    ELSE [index |-> 0, end |-> 0]

\* String.prototype.trim over the characters of the model
RECURSIVE trim(_)
trim(s) ==
    IF s = <<>> THEN s
    ELSE IF Head(s) = " " THEN trim(Tail(s))
    ELSE IF s[Len(s)] = " " THEN trim(SubSeq(s, 1, Len(s) - 1))
    ELSE s

\* options[Math.floor(Math.random() * options.length)]
randomOption(options, picks) == options[(Head(picks) % Len(options)) + 1]

nextPicks(picks) == IF Len(picks) > 1 THEN Tail(picks) ELSE picks

\* text with the match m replaced by selectedOption
replaceMatch(text, m, selectedOption) ==
    SubSeq(text, 1, m.index - 1) \o selectedOption \o SubSeq(text, m.end + 1, Len(text))

\* src/utils/spintax.ts, the loop of lines 26-52: the selected option is
\* trimmed and the search starts again from the beginning.
RECURSIVE spintaxLoop(_, _)
spintaxLoop(processedText, picks) ==
    LET match == regexExec(processedText, 0)
        options == split(SubSeq(processedText, match.index + 1, match.end - 1), "|")
        selectedOption == trim(randomOption(options, picks))
    IN IF match.index = 0 THEN processedText
       ELSE spintaxLoop(replaceMatch(processedText, match, selectedOption), nextPicks(picks))

processSpintax(text, picks) == IF text = <<>> THEN <<>> ELSE spintaxLoop(text, picks)

\* src/services/spintax.service.ts, the loop of lines 21-39: the selected
\* option is kept as written and the search goes on after it.
RECURSIVE spintaxServiceLoop(_, _, _)
spintaxServiceLoop(processedText, lastIndex, picks) ==
    LET match == regexExec(processedText, lastIndex)
        options == split(SubSeq(processedText, match.index + 1, match.end - 1), "|")
        selectedOption == randomOption(options, picks)
    IN IF match.index = 0 THEN processedText
       ELSE spintaxServiceLoop(replaceMatch(processedText, match, selectedOption),
                               (match.index - 1) + Len(selectedOption), nextPicks(picks))

processSpintaxService(text, picks) ==
    IF text = <<>> THEN <<>> ELSE spintaxServiceLoop(text, 0, picks)

\* One call of processSpintax, of either module.
ProcessSpintax(module, text, picks) ==
    /\ last = noLast
    /\ last' = [op |-> "processSpintax", module |-> module, text |-> text,
                picks |-> picks,
                result |-> IF module = "utils" THEN processSpintax(text, picks)
                           ELSE processSpintaxService(text, picks)]
    /\ UNCHANGED <<hooks, cfg, storeVars, clock, orchVars, detached, calls, queueVars>>

InitSpintax == InitRecon

NextSpintax ==
    /\ last = noLast
    /\ \E module \in {"utils", "service"}, text \in SpinTemplates, picks \in Picks :
           ProcessSpintax(module, text, picks)

SpecSpintax == InitSpintax /\ [][NextSpintax]_vars

\* The variation groups of a template read left to right, each replaced by one
\* of its own options as written, the text outside them kept: the Cartesian
\* product of the groups' option lists.
RECURSIVE variations(_)
variations(text) ==
    LET group == regexExec(text, 0)
        options == split(SubSeq(text, group.index + 1, group.end - 1), "|")
    IN IF group.index = 0 THEN {text}
       ELSE {SubSeq(text, 1, group.index - 1) \o options[k] \o rest :
                 k \in 1..Len(options),
                 rest \in variations(SubSeq(text, group.end + 1, Len(text)))}

\* C13: processSpintax returns the template with each variation group replaced
\* by exactly one of that group's own options as written, chosen left to
\* right, the text outside the groups unchanged and substituted text not
\* scanned again: an element of the Cartesian product of the option lists.
C13_ResultIsVariation ==
    last.op = "processSpintax" => last.result \in variations(last.text)

containsEmptyGroup(text) ==
    \E i \in 1..(Len(text) - 1) : text[i] = "{" /\ text[i + 1] = "}"

\* C14: for a template containing an empty group {}, the output of
\* processSpintax contains no "{}".
C14_EmptyGroupResolved ==
    (last.op = "processSpintax" /\ containsEmptyGroup(last.text))
        => ~containsEmptyGroup(last.result)

(***************************************************************************)
(* Instance selection: the orchestrator and startCampaign over campaigns   *)
(* with rotation on or off, instances connected or not, and any past       *)
(* lastUsedAt (0 is null, as lastUsedAt?.getTime() || 0 reads it).          *)
(***************************************************************************)
MaxStamp == 2

InitSelect ==
    /\ InitProcesses
    /\ cEndTime = [c \in Campaigns |-> FALSE]
    /\ sentCount = [c \in Campaigns |-> 0]
    /\ failedCount = [c \in Campaigns |-> 0]
    /\ optedOutCount = [c \in Campaigns |-> 0]
    /\ rStatus = [r \in Recipients |-> "pending"]
    /\ rMessageId = [r \in Recipients |-> "none"]
    /\ rFailedReason = [r \in Recipients |-> "none"]
    /\ logs = <<>>
    /\ iLastUsedAt \in [Instances -> 0..MaxStamp]
    /\ clock = MaxStamp
    /\ cfg \in [Campaigns -> {[defaultConfig EXCEPT !.useNumberRotation = b] : b \in BOOLEAN}]
    /\ cfg["c2"] = defaultConfig
    /\ cStatus = [c \in Campaigns |-> "pending"]
    /\ iStatus \in [Instances -> {"connected", "disconnected"}]

NextSelect ==
    \/ ProcessNamedCampaign("p1", "c1")
    \/ LoopStep("p1", "ok")
    \/ DrainCheck("p1")
    \/ ApplySentCount("c1")
    \/ \E stamp \in detached.lastUsedAt : ApplyLastUsedAt(stamp)
    \/ StartCampaign("q1", "c1", TRUE)
    \/ StartRun("q1")
    \/ StartEnqueue("q1", FALSE)
    \/ StartMarkQueued("q1")

SpecSelect == InitSelect /\ [][NextSelect]_vars

indexOf(i) == CHOOSE k \in 1..Len(InstanceOrder) : InstanceOrder[k] = i

connectedIn(instances) == {i \in Instances : instances[i].status = "connected"}

\* The connected instances that no connected instance precedes, by lastUsedAt
\* (null, read as 0, first) and then by the order of the eligible set.
oldestConnected(instances) ==
    {i \in connectedIn(instances) :
        \A j \in connectedIn(instances) :
            \/ instances[i].lastUsedAt < instances[j].lastUsedAt
            \/ /\ instances[i].lastUsedAt = instances[j].lastUsedAt
               /\ indexOf(i) <= indexOf(j)}

\* C11: with rotation on, each selection of a pass over the campaign object
\* it holds returns the connected instance with the smallest lastUsedAt (null
\* smallest, ties by the order of the eligible set), never an instance that
\* is not connected, and none when no instance is connected (the pass then
\* pauses the campaign without a send).
C11_RotationPicksOldest ==
    [][(pc["p1"] = "loop" /\ cfg[mem["p1"].id].useNumberRotation
        /\ (logs' # logs \/ pc'["p1"] # "loop" \/ cur'["p1"] # cur["p1"]))
       => IF connectedIn(mem["p1"].instances) = {}
          THEN logs' = logs /\ calls' = calls /\ mem'["p1"].paused
          ELSE /\ Len(logs') = Len(logs) + 1
               /\ logs'[Len(logs')].instanceId \in oldestConnected(mem["p1"].instances)
               /\ calls'[Len(calls')].instanceId = logs'[Len(logs')].instanceId]_vars

C11_Witness ==
    /\ cfg["c1"].useNumberRotation
    /\ mem["p1"].id = "c1"
    /\ mem["p1"].instances["i1"] = [status |-> "connected", lastUsedAt |-> 2]
    /\ mem["p1"].instances["i2"] = [status |-> "connected", lastUsedAt |-> 1]
    /\ Len(logs) = 1 /\ logs[1].instanceId = "i2"

\* The first connected instance in the order of the eligible set.
firstConnected ==
    {i \in Instances : iStatus[i] = "connected"
                       /\ \A j \in Instances : iStatus[j] = "connected" => indexOf(i) <= indexOf(j)}

\* C12: with rotation off, every send of the orchestrator and every job
\* startCampaign adds for a recipient of the campaign uses the first connected
\* instance of the eligible set, whatever the lastUsedAt values are.
C12_NoRotationPicksFirst ==
    \A c \in Campaigns :
        ~cfg[c].useNumberRotation =>
            /\ \A k \in 1..Len(logs) :
                   logs[k].campaignId = c => logs[k].instanceId \in firstConnected
            /\ \A k \in 1..Len(calls) :
                   calls[k].campaignId = c => calls[k].instanceId \in firstConnected
            /\ \A k \in 1..Len(queue) :
                   queue[k].campaignId = c => queue[k].instanceId \in firstConnected

C12_Witness ==
    /\ ~cfg["c1"].useNumberRotation
    /\ iStatus = [i \in Instances |-> "connected"]
    /\ iLastUsedAt["i1"] > iLastUsedAt["i2"]
    /\ Len(queue) = 2 /\ queue[1].instanceId = "i1" /\ queue[2].instanceId = "i1"
    /\ queue[1].recipientId # queue[2].recipientId
    /\ Len(logs) = 1 /\ logs[1].instanceId = "i1"

(***************************************************************************)
(* Two processCampaign passes at once: processCampaign is a public method  *)
(* that takes no lock, so a second call may start while the first is at    *)
(* its pacing delay or at any other await.                                 *)
(***************************************************************************)
InitOverlap == InitRecon

NextOverlap ==
    \/ \E p \in Passes : ProcessNamedCampaign(p, "c1")
    \/ \E p \in Passes : ProcessNextCampaign(p)
    \/ \E p \in Passes, o \in {"ok", "throw"} : LoopStep(p, o)
    \/ \E p \in Passes : DrainCheck(p)
    \/ ApplySentCount("c1")
    \/ ApplyFailedCount("c1")

SpecOverlap == InitOverlap /\ [][NextOverlap]_vars

callsFor(r) == {k \in 1..Len(calls) : calls[k].recipientId = r}

\* C15: a Recipient is handed to the gateway by at most one pass, also when
\* two passes over its campaign overlap: it gets at most one gateway call and
\* sentCount grows by at most one per Recipient.
C15_OneSendPerRecipient ==
    /\ \A r \in Recipients : Cardinality(callsFor(r)) <= 1
    /\ \A c \in Campaigns : sentCount[c] <= Cardinality(RecipientsOf(c))

(***************************************************************************)
(* The queue path: concurrent startCampaign requests for campaign c2, the  *)
(* worker's slots, and the opt-out event of recipient r3.                  *)
(***************************************************************************)
InitQueue ==
    /\ InitStore
    /\ InitProcesses
    /\ cfg = [c \in Campaigns |-> defaultConfig]
    /\ cStatus = [c \in Campaigns |-> "draft"]
    /\ iStatus = [i \in Instances |-> IF i = "i1" THEN "connected" ELSE "disconnected"]

NextQueue ==
    \/ \E q \in Requests : StartCampaign(q, "c2", TRUE)
    \/ \E q \in Requests : StartRun(q)
    \/ \E q \in Requests : StartEnqueue(q, FALSE)
    \/ \E q \in Requests : StartMarkQueued(q)
    \/ \E w \in Workers : WorkerTake(w)
    \/ \E w \in Workers, o \in {"ok", "fail"} : WorkerSend(w, o)
    \/ handleWebhook(interactivePayload(optOutResponseId("r3", "c2"), TRUE), "none")

SpecQueue == InitQueue /\ [][NextQueue]_vars

workerCallsFor(r) == {k \in 1..Len(calls) : calls[k].path = "worker" /\ calls[k].recipientId = r}

\* The jobs startCampaign added for r that wait for their first attempt.
freshJobsFor(r) ==
    {k \in 1..Len(queue) : queue[k].recipientId = r /\ queue[k].attemptsMade = 0}

\* C16: in the queue path, under concurrent startCampaign requests and
\* concurrent worker jobs, a Recipient is claimed (pending to queued, one job)
\* at most once and sent through the gateway at most once.
C16_QueuePathSendsOnce ==
    \A r \in Recipients :
        /\ Cardinality(freshJobsFor(r)) <= 1
        /\ Cardinality(workerCallsFor(r)) <= 1

\* C17: opted-out is absorbing: once a Recipient is opted-out, no later step
\* of a worker job (its send, its failure handling) or of the webhook handler
\* changes its status.  (sc' = sc leaves out the steps of startCampaign.)
C17_OptedOutAbsorbing ==
    [][sc' = sc =>
          \A r \in Recipients : rStatus[r] = "opted-out" => rStatus'[r] = "opted-out"]_vars

\* C18: failed is absorbing: once a Recipient is failed, no step - an opt-out
\* event, a delivery-status event, an orchestrator pass - changes its status.
C18_FailedAbsorbing ==
    [][\A r \in Recipients : rStatus[r] = "failed" => rStatus'[r] = "failed"]_vars

(***************************************************************************)
(* Sends and their bookkeeping: an orchestrator pass over campaign c1 and  *)
(* the queue path (one request, one worker slot) over campaign c2, each    *)
(* campaign with a text template or with no content at all.               *)
(***************************************************************************)
noContentConfig == [defaultConfig EXCEPT !.messageTextTemplate = ""]
buttonsOnlyConfig ==
    [noContentConfig EXCEPT !.messageButtons = [kind |-> "object", list |-> <<ownButton>>]]

InitSend ==
    /\ InitStore
    /\ InitProcesses
    /\ cfg \in [Campaigns -> {defaultConfig, noContentConfig, buttonsOnlyConfig}]
    /\ cStatus = [c \in Campaigns |-> IF c = "c1" THEN "pending" ELSE "draft"]
    /\ iStatus = [i \in Instances |-> IF i = "i1" THEN "connected" ELSE "disconnected"]

NextSend ==
    \/ ProcessNamedCampaign("p1", "c1")
    \/ \E o \in GatewayOutcomes : LoopStep("p1", o)
    \/ DrainCheck("p1")
    \/ ApplySentCount("c1")
    \/ ApplyFailedCount("c1")
    \/ StartCampaign("q1", "c2", TRUE)
    \/ StartRun("q1")
    \/ StartEnqueue("q1", FALSE)
    \/ StartMarkQueued("q1")
    \/ WorkerTake("w1")
    \/ \E o \in WorkerOutcomes : WorkerSend("w1", o)

SpecSend == InitSend /\ [][NextSend]_vars

\* The step is a send for r (every send writes a SendingLog row for its
\* recipient) ...
sendStepFor(r) == Len(logs') > Len(logs) /\ logs'[Len(logs) + 1].recipientId = r

\* ... that failed: it made no gateway call (no content), or its call was
\* answered {success: false} or threw.
failedSendFor(r) ==
    /\ sendStepFor(r)
    /\ \/ calls' = calls
       \/ /\ Len(calls') = Len(calls) + 1
          /\ calls'[Len(calls')].outcome \in {"fail", "throw"}

\* failedCount with the increments issued and not yet applied
failedIssued(c) == failedCount[c] + detached.failedCount[c]

\* C19: each failed send of a recipient - by gateway error or for lack of
\* content - marks the Recipient failed with a failedReason, appends one
\* SendingLog with status api_error and increments the campaign's failedCount
\* by exactly one, in the orchestrator and in the worker.
C19_FailedSendBookedOnce ==
    [][\A r \in Recipients :
          failedSendFor(r) =>
              /\ rStatus'[r] = "failed"
              /\ rFailedReason'[r] # "none"
              /\ Len(logs') = Len(logs) + 1
              /\ logs'[Len(logs')].status = "api_error"
              /\ failedIssued(campaignIdOf(r))' = failedIssued(campaignIdOf(r)) + 1]_vars

\* The campaign has no text template, no media and no buttons.
hasNoContent(config) ==
    /\ config.messageTextTemplate = ""
    /\ ~config.messageMediaTemplate
    /\ config.messageButtons.kind = "null"

\* The step in which the orchestrator pass or the worker slot deals with r.
processedStep(r) ==
    \/ /\ pc["p1"] = "loop" /\ cur["p1"] = r
       /\ pc'["p1"] # "loop" \/ cur'["p1"] # r
       /\ ~mem'["p1"].paused
    \/ active["w1"].recipientId = r /\ active'["w1"] = noJob

noContentReasons == {reasonNoContent, reasonNoTemplate}

retryTaken == queue # <<>> /\ queue' = Tail(queue) /\ Head(queue).attemptsMade > 0

\* C21: when a worker's gateway call failed for a transient reason, the next
\* attempt of the job executes the gateway call again: the retry that is
\* taken off the queue goes on to its send.
C21_RetryCallsGatewayAgain ==
    [][retryTaken => \E w \in Workers : active[w] = noJob /\ active'[w] = Head(queue)]_vars

\* C22: a send that fails for lack of content is never retried: the job ends
\* without a further attempt being scheduled, and the Recipient stays failed.
C22_NoContentNotRetried ==
    [][\A r \in Recipients :
          hasNoContent(cfg[campaignIdOf(r)]) =>
              /\ \A k \in 1..Len(queue') :
                     queue'[k].recipientId = r => queue'[k].attemptsMade = 0
              /\ (active["w1"].recipientId = r /\ active'["w1"] = noJob) =>
                     (rStatus'[r] = "failed" /\ queue' = queue)
              /\ rStatus[r] = "failed" => rStatus'[r] = "failed"]_vars

C22_Witness ==
    /\ hasNoContent(cfg["c2"])
    /\ rStatus["r3"] = "failed" /\ rFailedReason["r3"] = reasonNoTemplate
    /\ \E k \in 1..Len(logs) : logs[k].recipientId = "r3" /\ logs[k].status = "api_error"
    /\ queue = <<>> /\ active["w1"] = noJob
    /\ failedCount["c2"] = 1

(***************************************************************************)
(* Two orchestrator passes over campaign c1 while the gateway reports      *)
(* connection changes of instance i1.  Each pass keeps the campaign object *)
(* it loaded, so the instance states it selects from are those of its own  *)
(* load.                                                                   *)
(***************************************************************************)
InitResume ==
    /\ InitStore
    /\ InitProcesses
    /\ cfg = [c \in Campaigns |-> defaultConfig]
    /\ cStatus = [c \in Campaigns |-> IF c = "c1" THEN "pending" ELSE "draft"]
    /\ iStatus \in [Instances -> {"connected", "disconnected"}]
    /\ iStatus["i2"] = "disconnected"

NextResume ==
    \/ \E p \in Passes : ProcessNamedCampaign(p, "c1")
    \/ \E p \in Passes : ProcessNextCampaign(p)
    \/ \E p \in Passes, o \in {"ok", "throw"} : LoopStep(p, o)
    \/ \E p \in Passes : DrainCheck(p)
    \/ ApplySentCount("c1")
    \/ ApplyFailedCount("c1")
    \/ \E state \in {"connected", "disconnected"} :
           handleWebhook(connectionPayload("i1", state), "none")

SpecResume == InitResume /\ [][NextResume]_vars

\* C23: once a campaign's status is completed or cancelled, no orchestrator
\* pass, worker job or reconciliation event changes it to another value.
C23_FinishedStaysFinished ==
    [][\A c \in Campaigns :
          cStatus[c] \in {"completed", "cancelled"} => cStatus'[c] = cStatus[c]]_vars

\* C24: with rotation on and at least two connected instances, a selection
\* of a run sees the lastUsedAt stamps of the earlier selections of the same
\* run: two consecutive recipients of the run are not sent through the same
\* instance.
C24_ConsecutiveSendsRotate ==
    [][(/\ pc["p1"] = "loop"
        /\ cfg[mem["p1"].id].useNumberRotation
        /\ Cardinality(connectedIn(mem["p1"].instances)) >= 2
        /\ mem["p1"].pacing # "none"
        /\ Len(calls') = Len(calls) + 1)
       => calls'[Len(calls')].instanceId # calls[Len(calls)].instanceId]_vars

\* C25: when the recipient loop of a pass has exited (exhausted or paused),
\* the drain check sets the campaign completed and stamps endTime if and only
\* if none of its recipients is pending at that moment; otherwise status and
\* endTime are left as they are (running, or paused by the loop).
C25_CompletedIffNonePending ==
    [][\A p \in Passes :
          (pc[p] = "drain" /\ pc'[p] = "done") =>
              LET c == mem[p].id
              IN IF \A r \in RecipientsOf(c) : rStatus[r] # "pending"
                 THEN cStatus'[c] = "completed" /\ cEndTime'[c]
                 ELSE /\ cStatus'[c] = cStatus[c]
                      /\ cEndTime'[c] = cEndTime[c]
                      /\ cStatus[c] \in {"running", "paused"}]_vars

\* The drain check of a pass that sent one recipient and failed the other
\* has completed the campaign.
C25_Witness ==
    /\ pc["p1"] = "done"
    /\ mem["p1"].id = "c1"
    /\ cStatus["c1"] = "completed"
    /\ cEndTime["c1"]
    /\ rStatus["r1"] = "sent"
    /\ rStatus["r2"] = "failed"

(***************************************************************************)
(* The queue path alone, under its scheduling: one request starts campaign *)
(* c1; a request handler that is running goes on to its next await, and    *)
(* the worker takes every waiting job and finishes every job it holds.     *)
(***************************************************************************)
NextQueueLive ==
    \/ StartCampaign("q1", "c1", TRUE)
    \/ StartRun("q1")
    \/ StartEnqueue("q1", FALSE)
    \/ StartMarkQueued("q1")
    \/ \E w \in Workers : WorkerTake(w)
    \/ \E w \in Workers, o \in {"ok", "fail"} : WorkerSend(w, o)

QueueProgress ==
    \/ StartRun("q1") \/ StartEnqueue("q1", FALSE) \/ StartMarkQueued("q1")
    \/ \E w \in Workers : WorkerTake(w)
    \/ \E w \in Workers, o \in {"ok", "fail"} : WorkerSend(w, o)

SpecQueueLive == InitQueue /\ [][NextQueueLive]_vars /\ WF_vars(QueueProgress)

\* Nothing of campaign c1 is left to do on the queue path: no recipient is
\* pending or queued, no job waits or is held, no request is in progress.
queueDrained ==
    /\ \A r \in RecipientsOf("c1") : rStatus[r] \notin {"pending", "queued"}
    /\ queue = <<>>
    /\ \A w \in Workers : active[w] = noJob
    /\ sc["q1"].pc \in {"idle", "done"}

\* C26: a campaign started through the queue path is eventually completed
\* once none of its recipients is pending and every enqueued job has been
\* processed; it does not stay running forever.
C26_QueueCampaignCompletes ==
    (cStatus["c1"] = "running" /\ queueDrained) ~> (cStatus["c1"] = "completed")

(***************************************************************************)
(* A scheduler that keeps calling processCampaign, without an id and with  *)
(* the id of c1, one pass at a time, while the gateway may report that     *)
(* instance i1 has connected.  Every pass runs to its end.                  *)
(***************************************************************************)
InitSchedule ==
    /\ InitStore
    /\ InitProcesses
    /\ cfg = [c \in Campaigns |-> defaultConfig]
    /\ cStatus = [c \in Campaigns |-> "pending"]
    /\ iStatus = [i \in Instances |-> "disconnected"]

SchedulerPass ==
    \/ ProcessNextCampaign("p1")
    \/ ProcessNamedCampaign("p1", "c1")
    \/ \E o \in GatewayOutcomes : LoopStep("p1", o)
    \/ DrainCheck("p1")

NextSchedule ==
    \/ SchedulerPass
    \/ \E c \in Campaigns : ApplySentCount(c)
    \/ \E c \in Campaigns : ApplyFailedCount(c)
    \/ handleWebhook(connectionPayload("i1", "connected"), "none")

SpecSchedule == InitSchedule /\ [][NextSchedule]_vars /\ WF_vars(SchedulerPass)

\* C27: a campaign left with pending recipients by a pass that paused it for
\* want of a connected instance is resumed by a later pass once one of its
\* instances is connected: its pending recipients are eventually sent or
\* failed.
C27_PausedCampaignResumed ==
    (cStatus["c1"] = "paused" /\ iStatus["i1"] = "connected")
        ~> (\A r \in RecipientsOf("c1") : rStatus[r] # "pending")

(***************************************************************************)
(* One pass at a time over campaigns in any stored status: c1 is processed *)
(* by id or found by the query, c2 only found by the query; either may     *)
(* have a startTime in the future.  A completed campaign has no pending    *)
(* recipient.                                                              *)
(***************************************************************************)
InitAcquire ==
    /\ InitProcesses
    /\ cfg \in [Campaigns -> {[defaultConfig EXCEPT !.startTime = t] : t \in {"null", "future"}}]
    /\ cStatus \in [Campaigns -> {"draft", "pending", "running", "paused", "completed"}]
    /\ cEndTime = [c \in Campaigns |-> cStatus[c] \in {"paused", "completed"}]
    /\ rStatus = [r \in Recipients |->
                     IF cStatus[campaignIdOf(r)] = "completed" THEN "sent" ELSE "pending"]
    /\ sentCount = [c \in Campaigns |->
                       Cardinality({r \in RecipientsOf(c) : rStatus[r] = "sent"})]
    /\ failedCount = [c \in Campaigns |-> 0]
    /\ optedOutCount = [c \in Campaigns |-> 0]
    /\ rMessageId = [r \in Recipients |-> "none"]
    /\ rFailedReason = [r \in Recipients |-> "none"]
    /\ logs = <<>>
    /\ iLastUsedAt = [i \in Instances |-> 0]
    /\ clock = 0
    /\ iStatus \in [Instances -> {"connected", "disconnected"}]
    /\ iStatus["i2"] = "disconnected"

NextAcquire ==
    \/ ProcessNamedCampaign("p1", "c1")
    \/ ProcessNextCampaign("p1")
    \/ \E o \in {"ok", "throw"} : LoopStep("p1", o)
    \/ DrainCheck("p1")
    \/ \E c \in Campaigns : ApplySentCount(c)
    \/ \E c \in Campaigns : ApplyFailedCount(c)

SpecAcquire == InitAcquire /\ [][NextAcquire]_vars

\* C28: a pass is only acquired for a campaign that is pending or running,
\* and the campaign is stored as running from the acquisition, before any
\* gateway call of the pass; every gateway call is made for the campaign of
\* the pass while it is stored as running; no call is made for a campaign
\* whose status is outside pending and running, nor for a campaign that only
\* the query can find (c2) while its startTime lies in the future.
C28_RunningBeforeFirstCall ==
    [][/\ (pc["p1"] \in {"idle", "done"} /\ pc'["p1"] \notin {"idle", "done"}) =>
            /\ cStatus[mem'["p1"].id] \in {"pending", "running"}
            /\ cStatus'[mem'["p1"].id] = "running"
            /\ calls' = calls
       /\ calls' # calls =>
            /\ Len(calls') = Len(calls) + 1
            /\ calls'[Len(calls')].campaignId = mem["p1"].id
            /\ cStatus[mem["p1"].id] = "running"
            /\ (mem["p1"].id = "c2" => cfg["c2"].startTime # "future")
       /\ \A c \in Campaigns :
             cStatus[c] \notin {"pending", "running"} =>
                 /\ cStatus'[c] = cStatus[c]
                 /\ \A k \in 1..Len(calls') : k > Len(calls) => calls'[k].campaignId # c]_vars

\* The query skipped c1 (draft) and found c2, which was set running and
\* whose recipient was then sent.
C28_Witness ==
    /\ cStatus["c1"] = "draft"
    /\ cfg["c2"].startTime = "null"
    /\ cStatus["c2"] = "running"
    /\ mem["p1"].id = "c2"
    /\ Len(calls) = 1
    /\ calls[1].campaignId = "c2"
    /\ calls[1].path = "orchestrator"

(***************************************************************************)
(* The pacing delay as a function of the campaign's interval and of the    *)
(* value Math.random() returns, here draw / RandomDen with                 *)
(* 0 <= draw < RandomDen.  createCampaign stores any non-zero intervalMin  *)
(* and intervalMax it is given, in either order.                           *)
(***************************************************************************)
MaxInterval == 4
RandomDen == 8

Intervals == 1..MaxInterval
RandomDraws == 0..(RandomDen - 1)

orchestratorDelayWide(intervalMin, intervalMax, draw) ==
    ((draw * (intervalMax - intervalMin + 2)) \div RandomDen) + intervalMin

\* campaignSender.service.ts lines 544-547, in seconds:
\* Math.floor(Math.random() * (intervalMax - intervalMin + 1)) + intervalMin.
orchestratorDelay(intervalMin, intervalMax, draw) ==
    ((draw * (intervalMax - intervalMin + 1)) \div RandomDen) + intervalMin

\* The worker's delayMs, in milliseconds, times RandomDen:
\* Math.random() * (intervalMax - intervalMin) * 1000 + intervalMin * 1000.
workerDelayMs(intervalMin, intervalMax, draw) ==
    draw * (intervalMax - intervalMin) * 1000 + intervalMin * 1000 * RandomDen

PacingDelay(path, intervalMin, intervalMax, draw) ==
    /\ last = noLast
    /\ last' = [op |-> "pacingDelay", path |-> path, intervalMin |-> intervalMin,
                intervalMax |-> intervalMax, draw |-> draw,
                delay |-> IF path = "orchestrator"
                          THEN orchestratorDelay(intervalMin, intervalMax, draw)
                          ELSE workerDelayMs(intervalMin, intervalMax, draw)]
    /\ UNCHANGED <<hooks, cfg, storeVars, clock, orchVars, detached, calls, queueVars>>

InitPacing == InitRecon

NextPacing ==
    /\ last = noLast
    /\ \E path \in {"orchestrator", "worker"}, intervalMin \in Intervals,
          intervalMax \in Intervals, draw \in RandomDraws :
           PacingDelay(path, intervalMin, intervalMax, draw)

SpecPacing == InitPacing /\ [][NextPacing]_vars

\* C29: for integers intervalMin <= intervalMax and every random draw in
\* [0, 1), the orchestrator's delay is an integer number of seconds in
\* [intervalMin, intervalMax] (never intervalMax + 1) and the worker's delay
\* lies in [intervalMin * 1000, intervalMax * 1000] milliseconds.
C29_DelayWithinInterval ==
    (last.op = "pacingDelay" /\ last.intervalMin <= last.intervalMax) =>
        IF last.path = "orchestrator"
        THEN /\ last.delay \in Int
             /\ last.intervalMin <= last.delay
             /\ last.delay <= last.intervalMax
        ELSE /\ last.intervalMin * 1000 * RandomDen <= last.delay
             /\ last.delay <= last.intervalMax * 1000 * RandomDen

\* The largest draw over an interval of more than one value gives exactly
\* intervalMax seconds.
C29_Witness ==
    /\ last.op = "pacingDelay"
    /\ last.path = "orchestrator"
    /\ last.intervalMin < last.intervalMax
    /\ last.draw = RandomDen - 1
    /\ last.delay = last.intervalMax

\* C30: in an orchestrator run the pacing delay is applied once per
\* recipient: a pacing delay has elapsed between any two consecutive gateway
\* calls of the run, also when the earlier call failed with an exception.
C30_DelayBetweenCalls ==
    [][(pc["p1"] = "loop" /\ Len(calls') = Len(calls) + 1)
       => mem["p1"].pacing # "undelayed"]_vars

C32_FailedStartReverts ==
    (last.op = "startCampaign" /\ last.code = 500) =>
        /\ sc["q1"].pc = "done"
        /\ cStatus[sc["q1"].id] = "draft"

\* The job of r1 was added and marked queued, adding the job of r2 threw.
C32_Witness ==
    /\ last.op = "startCampaign"
    /\ last.code = 500
    /\ sc["q1"].id = "c1"
    /\ sc["q1"].recipients = <<"r2">>
    /\ Len(queue) = 1
    /\ rStatus["r1"] = "queued"
    /\ cfg["c1"].startTime = "past"
    /\ cStatus["c1"] = "draft"

\* C33: a worker that dequeues a job whose Recipient is not in status queued
\* skips it: no gateway call, no change of a Recipient, a campaign counter or
\* a SendingLog, and the job ends without error, so it is not retried.
C33_SkipIsNoOp ==
    [][(/\ queue # <<>>
        /\ queue' = Tail(queue)
        /\ rStatus[Head(queue).recipientId] # "queued")
       => /\ calls' = calls
          /\ active' = active
          /\ UNCHANGED <<rStatus, rMessageId, rFailedReason, logs, sentCount,
                         failedCount, optedOutCount, cStatus, detached>>]_vars

\* The job of r3 was added, r3 opted out, and the job was taken and skipped.
C33_Witness ==
    /\ sc["q1"].pc = "done"
    /\ sc["q1"].id = "c2"
    /\ sc["q2"].pc = "idle"
    /\ rStatus["r3"] = "opted-out"
    /\ queue = <<>>
    /\ \A w \in Workers : active[w] = noJob
    /\ calls = <<>>
    /\ logs = <<>>
    /\ last = noLast

(***************************************************************************)
(* Two opt-out events for (r1, c1), served concurrently, next to one pass  *)
(* over c1.                                                                *)
(***************************************************************************)
InitOptOut == InitRecon

NextOptOut ==
    \/ ProcessNamedCampaign("p1", "c1")
    \/ LoopStep("p1", "ok")
    \/ DrainCheck("p1")
    \/ ApplySentCount("c1")
    \/ \E h \in Hooks :
           OptOutRead(h, interactivePayload(optOutResponseId("r1", "c1"), TRUE))
    \/ \E h \in Hooks : OptOutUpdate(h)
    \/ \E h \in Hooks : OptOutIncrement(h)

SpecOptOut == InitOptOut /\ [][NextOptOut]_vars

\* C37: two duplicate opt-out events for the same (recipientId, campaignId)
\* handled concurrently increment the campaign's optedOutCount exactly once,
\* whatever the interleaving of their reads, updates and increments.
C37_DuplicateOptOutCountsOnce ==
    /\ optedOutCount["c1"] <= 1
    /\ (\A h \in Hooks : hooks[h].pc = "done") => optedOutCount["c1"] = 1

(***************************************************************************)
(* The writers of the campaign counters at once: the jobs of c1 in two     *)
(* worker slots (every send succeeds), two opt-out events of r1, two       *)
(* overlapping passes over c2 (sends succeed or throw) and the increments  *)
(* those passes issue without await.                                       *)
(***************************************************************************)
InitCounters ==
    /\ InitStore
    /\ InitProcesses
    /\ cfg = [c \in Campaigns |-> defaultConfig]
    /\ cStatus = [c \in Campaigns |-> IF c = "c1" THEN "draft" ELSE "pending"]
    /\ iStatus = [i \in Instances |-> IF i = "i1" THEN "connected" ELSE "disconnected"]

NextCounters ==
    \/ StartCampaign("q1", "c1", TRUE)
    \/ StartRun("q1")
    \/ StartEnqueue("q1", FALSE)
    \/ StartMarkQueued("q1")
    \/ \E w \in Workers : WorkerTake(w)
    \/ \E w \in Workers : WorkerSend(w, "ok")
    \/ \E h \in Hooks :
           OptOutRead(h, interactivePayload(optOutResponseId("r1", "c1"), TRUE))
    \/ \E h \in Hooks : OptOutUpdate(h)
    \/ \E h \in Hooks : OptOutIncrement(h)
    \/ \E p \in Passes : ProcessNamedCampaign(p, "c2")
    \/ \E p \in Passes, o \in {"ok", "throw"} : LoopStep(p, o)
    \/ \E p \in Passes : DrainCheck(p)
    \/ ApplySentCount("c2")
    \/ ApplyFailedCount("c2")

SpecCounters == InitCounters /\ [][NextCounters]_vars

\* The increments issued so far: one per success row a worker wrote, one per
\* orchestrator call booked as sent or thrown, one per opt-out request that
\* has run its increment.
workerRows(c, statuses) ==
    Cardinality({k \in 1..Len(logs) :
                    logs[k].campaignId = c /\ logs[k].status \in statuses})

orchestratorCalls(c, outcomes) ==
    Cardinality({k \in 1..Len(calls) :
                    /\ calls[k].campaignId = c
                    /\ calls[k].path = "orchestrator"
                    /\ calls[k].outcome \in outcomes})

optOutsCounted(c) ==
    Cardinality({h \in Hooks : hooks[h].pc = "done" /\ hooks[h].recipient # "none"
                               /\ campaignIdOf(hooks[h].recipient) = c})

\* C34: no increment is lost, whatever the interleaving: each counter equals
\* the number of increments issued for it (those issued without await count
\* once the store has applied them).
C34_NoIncrementLost ==
    /\ sentCount["c1"] = workerRows("c1", {"success"})
    /\ optedOutCount["c1"] = optOutsCounted("c1")
    /\ sentCount["c2"] + detached.sentCount["c2"] = orchestratorCalls("c2", {"ok"})
    /\ failedCount["c2"] + detached.failedCount["c2"] = orchestratorCalls("c2", {"throw"})

\* Two workers, two passes and two opt-out requests have all written, and
\* every counter holds more than one increment.
C34_Witness ==
    /\ sentCount["c1"] = 2
    /\ optedOutCount["c1"] = 2
    /\ sentCount["c2"] = 1
    /\ failedCount["c2"] = 1
    /\ detached = noDetached

\* C35: every button payload handed to the gateway for a campaign recipient,
\* by the orchestrator or by the worker, contains an opt-out quick-reply
\* control.
C35_ButtonsCarryOptOut ==
    \A k \in 1..Len(calls) :
        calls[k].method = "buttons" => hasOptOutButton(calls[k].buttons)

\* C36: every recipient startCampaign has enqueued eventually leaves the
\* queued status (is sent, failed or opted-out), whatever the interleaving
\* of the addition of its job, the update of its status to queued and the
\* worker taking the job.
C36_QueuedRecipientProcessed ==
    \A r \in RecipientsOf("c1") :
        (rStatus[r] = "queued") ~> (rStatus[r] \in {"sent", "failed", "opted-out"})

(***************************************************************************)
(* A start of c1 whose job additions may throw, with the worker running.   *)
(***************************************************************************)
NextStartFail ==
    \/ StartCampaign("q1", "c1", TRUE)
    \/ StartRun("q1")
    \/ \E throws \in BOOLEAN : StartEnqueue("q1", throws)
    \/ StartMarkQueued("q1")
    \/ \E w \in Workers : WorkerTake(w)
    \/ \E w \in Workers, o \in {"ok", "fail"} : WorkerSend(w, o)

SpecStartFail == InitQueue /\ [][NextStartFail]_vars

\* The request was answered 500: it ended with recipients still to enqueue.
startFailed ==
    /\ sc["q1"].pc = "done"
    /\ sc["q1"].id = "c1"
    /\ sc["q1"].recipients # <<>>

\* C38: after startCampaign has failed partway and reverted the campaign to
\* draft, no Recipient of the campaign is left queued and no job that was
\* already added leads to a gateway call.
C38_NoSendAfterRevert ==
    /\ [](startFailed /\ cStatus["c1"] = "draft"
            => \A r \in RecipientsOf("c1") : rStatus[r] # "queued")
    /\ [][startFailed /\ cStatus["c1"] = "draft" => calls' = calls]_vars

(***************************************************************************)
(* Start requests of every kind for c1 (by its owner or not, with rotation *)
(* on or off, with or without a connected instance, before, during and    *)
(* after a run) and for a campaign that does not exist, next to one pass   *)
(* over c1.                                                                *)
(***************************************************************************)
InitReject ==
    /\ InitStore
    /\ InitProcesses
    /\ cfg \in [Campaigns -> {[defaultConfig EXCEPT !.useNumberRotation = b] : b \in BOOLEAN}]
    /\ cfg["c2"] = defaultConfig
    /\ cStatus \in [Campaigns -> {"draft", "pending"}]
    /\ cStatus["c2"] = "draft"
    /\ iStatus \in [Instances -> {"connected", "disconnected"}]

NextReject ==
    \/ \E c \in {"c1", "c9"}, isOwner \in BOOLEAN : StartCampaign("q1", c, isOwner)
    \/ StartRun("q1")
    \/ StartEnqueue("q1", FALSE)
    \/ StartMarkQueued("q1")
    \/ ProcessNamedCampaign("p1", "c1")
    \/ LoopStep("p1", "ok")
    \/ DrainCheck("p1")
    \/ ApplySentCount("c1")
    \/ \E stamp \in detached.lastUsedAt : ApplyLastUsedAt(stamp)

SpecReject == InitReject /\ [][NextReject]_vars

\* C39: a startCampaign call that is rejected (404, 403 or 400) changes no
\* campaign and no Recipient and adds no job; and a call is only accepted
\* for an existing campaign that is not running, has a pending recipient
\* and, with rotation on, a connected instance.
C39_RejectedStartChangesNothing ==
    [][/\ (last'.op = "startCampaign" /\ last'.code \in {400, 403, 404}) =>
            /\ sc'["q1"] = [idleStart EXCEPT !.pc = "done"]
            /\ UNCHANGED <<cfg, cStatus, cEndTime, sentCount, failedCount,
                           optedOutCount, rStatus, rMessageId, rFailedReason,
                           logs, queue, calls>>
       /\ (sc["q1"].pc # "run" /\ sc'["q1"].pc = "run") =>
            LET c == sc'["q1"].id
            IN /\ c \in Campaigns
               /\ cStatus[c] # "running"
               /\ \E r \in RecipientsOf(c) : rStatus[r] = "pending"
               /\ cfg[c].useNumberRotation =>
                      \E i \in Instances : iStatus[i] = "connected"]_vars

\* A second start of c1 while its first start has it running with a job
\* waiting was answered 400.
C39_Witness ==
    /\ last.op = "startCampaign"
    /\ last.code = 400
    /\ cStatus["c1"] = "running"
    /\ \E r \in RecipientsOf("c1") : rStatus[r] = "pending"
    /\ sc["q1"] = [idleStart EXCEPT !.pc = "done"]

(***************************************************************************)
(* Two passes over c1, with or without content to send and with or without *)
(* a connected instance; every awaited store operation and gateway call    *)
(* of a pass returns, so a pass that can take its next step takes it.      *)
(***************************************************************************)
InitPass ==
    /\ InitStore
    /\ InitProcesses
    /\ cfg \in [Campaigns -> {[defaultConfig EXCEPT !.messageTextTemplate = t] :
                                  t \in Templates}]
    /\ cfg["c2"] = defaultConfig
    /\ cStatus = [c \in Campaigns |-> IF c = "c1" THEN "pending" ELSE "draft"]
    /\ iStatus \in [Instances -> {"connected", "disconnected"}]
    /\ iStatus["i2"] = "disconnected"

PassStep(p) ==
    \/ \E o \in {"ok", "fail", "throw"} : LoopStep(p, o)
    \/ DrainCheck(p)

NextPass ==
    \/ \E p \in Passes : ProcessNamedCampaign(p, "c1")
    \/ \E p \in Passes : PassStep(p)
    \/ ApplySentCount("c1")
    \/ ApplyFailedCount("c1")

SpecPass == InitPass /\ [][NextPass]_vars /\ \A p \in Passes : WF_vars(PassStep(p))

\* The recipients a pass can still iterate over: the one in hand and those of
\* its campaign that are pending.
passPending(p) ==
    IF pc[p] # "loop" THEN {}
    ELSE {r \in mem[p].pending0 : rStatus[r] = "pending" \/ r = cur[p]}

\* C40: a processCampaign pass terminates: each loop iteration either pauses
\* the campaign and leaves the loop or moves the recipient in hand out of
\* pending; the recipients the pass can still iterate over are among those
\* pending when it loaded the campaign, shrink with each of its iterations and
\* never grow, and the pass gets through the drain check.
C40_PassTerminates ==
    /\ [](\A p \in Passes : pc[p] = "loop" => cur[p] \in passPending(p))
    /\ [][(logs' # logs \/ \E p \in Passes : pc[p] = "loop" /\ pc'[p] = "drain") =>
            \E p \in Passes :
               /\ pc[p] = "loop"
               /\ \/ /\ pc'[p] = "drain"
                     /\ mem'[p].paused
                     /\ cStatus'[mem[p].id] = "paused"
                  \/ /\ logs' # logs
                     /\ logs'[Len(logs')].recipientId = cur[p]
                     /\ rStatus'[cur[p]] # "pending"
               /\ Cardinality(passPending(p)') < Cardinality(passPending(p))
               /\ \A q \in Passes \ {p} :
                      pc[q] = "loop" => passPending(q)' \subseteq passPending(q)]_vars
    /\ \A p \in Passes : (pc[p] = "loop") ~> (pc[p] = "done")

\* A pass that loaded c1 with both recipients pending iterated twice (a
\* failure, then a success) and went through the drain check.
C40_Witness ==
    /\ pc["p1"] = "done"
    /\ pc["p2"] = "idle"
    /\ mem["p1"].pending0 = {"r1", "r2"}
    /\ ~mem["p1"].paused
    /\ rStatus["r1"] = "failed"
    /\ rStatus["r2"] = "sent"
    /\ cStatus["c1"] = "completed"
====
